---- MODULE Spec2Model ----
(***************************************************************************)
(* A model of the `logical` filter (plugins/filter/logical.py): the        *)
(* evaluator of and/or/xor/not and if/elif/else embedded in data, with     *)
(* promotion of the keys prefixed by "<<"; and of the plugins beside it:   *)
(* the mergevars lookup, the allow2te filter and the polymac filter.       *)
(* terms holds the arguments of the call under way, result its outcome.    *)
(*                                                                         *)
(* A data tree is a record [t, v]: t is the Python type of the value       *)
(* ("bool", "num", "str", "null", "list", "dict") and v its content.  A    *)
(* list holds a sequence of nodes; a dict holds a sequence of <<key,       *)
(* node>> pairs in insertion order, as a Python dict keeps them.  A raised *)
(* exception is the record [t |-> "err", v |-> kind]; it ends every        *)
(* enclosing evaluation.                                                   *)
(*                                                                         *)
(* A list or a dict also tells whose object it is: o is "in" for an object *)
(* of the caller's input tree and "new" for an object the code creates     *)
(* ([], {}, a comprehension, the result of flatten or deepcopy).  A value  *)
(* that Python passes by reference keeps its o.                            *)
(***************************************************************************)
EXTENDS Integers, Sequences, FiniteSets, TLC

VARIABLES terms, pc, idx, ret, if_state, result,
          allows, src_types, tgt_types, tgt_classes,
          resolving_strings, seen, frames, newret, changes,
          keys

\* The module-level variables of plugins/filter/allow2te.py: they live as
\* long as the process that imported the plugin.
allow2te_globals == <<allows, src_types, tgt_types, tgt_classes>>

\* The netspec lookup: self._resolving_strings and self._seen, the calls
\* of _do_term under way, and the value a finished call hands back.
netspec_state == <<resolving_strings, seen, frames, newret>>

\* `changes`, the count update_data_string() keeps of the replacements of a
\* pass, belongs to the polymac filter.
\* What a call of logical() leaves alone: the state of the other plugins,
\* among it `keys`, the merge order of a call of the mergevars lookup.
other_plugins == <<allow2te_globals, keys, netspec_state, changes>>

vars == <<terms, pc, idx, ret, if_state, result, other_plugins>>

----------------------------------------------------------------------------
(* The node model. *)

Bool(b) == [t |-> "bool", v |-> b]
Num(n) == [t |-> "num", v |-> n]
Str(s) == [t |-> "str", v |-> s]
Null == [t |-> "null", v |-> "None"]
List(s) == [t |-> "list", v |-> s, o |-> "new"]
Dict(p) == [t |-> "dict", v |-> p, o |-> "new"]
Err(kind) == [t |-> "err", v |-> kind]

\* The tree x as the caller holds it: every list and dict is the caller's.
RECURSIVE Caller(_)
Caller(x) ==
    IF x.t = "list" THEN [t |-> "list", v |-> [n \in 1..Len(x.v) |-> Caller(x.v[n])], o |-> "in"]
    ELSE IF x.t = "dict"
    THEN [t |-> "dict", v |-> [n \in 1..Len(x.v) |-> <<x.v[n][1], Caller(x.v[n][2])>>], o |-> "in"]
    ELSE x

\* The outcome recorded when a statement that changes its target in place
\* (pop, del, item assignment) is applied to an object of the caller: the
\* evaluation is followed no further.
InputMutated == [t |-> "err", v |-> "InputMutated"]

IsErr(x) == x.t = "err"

\* The keys of a dict, in insertion order.
Keys(p) == [n \in 1..Len(p) |-> p[n][1]]

HasKey(p, k) == \E n \in 1..Len(p) : p[n][1] = k

Get(p, k) == p[CHOOSE n \in 1..Len(p) : p[n][1] = k][2]

\* d.pop(k): the pairs without the one of key k.
Pop(p, k) == SelectSeq(p, LAMBDA kv : kv[1] # k)

\* d[k] = x: an existing key keeps its place, a new key goes last.
Put(p, k, x) ==
    IF HasKey(p, k)
    THEN [n \in 1..Len(p) |-> IF p[n][1] = k THEN <<k, x>> ELSE p[n]]
    ELSE Append(p, <<k, x>>)

\* Python's == on values: True == 1 and False == 0, lists compare element by
\* element, dicts compare as sets of items whatever the insertion order.
RECURSIVE PyEq(_, _)
PyEq(a, b) ==
    IF a.t \in {"bool", "num"} /\ b.t \in {"bool", "num"}
    THEN LET val(x) == IF x.t = "bool" THEN (IF x.v THEN 1 ELSE 0) ELSE x.v
         IN  val(a) = val(b)
    ELSE IF a.t # b.t THEN FALSE
    ELSE IF a.t = "list"
    THEN /\ Len(a.v) = Len(b.v)
         /\ \A n \in 1..Len(a.v) : PyEq(a.v[n], b.v[n])
    ELSE IF a.t = "dict"
    THEN /\ Len(a.v) = Len(b.v)
         /\ \A n \in 1..Len(a.v) :
                /\ HasKey(b.v, a.v[n][1])
                /\ PyEq(a.v[n][2], Get(b.v, a.v[n][1]))
    ELSE a.v = b.v

----------------------------------------------------------------------------
(* The deep-merge engine. *)

flatten_levels == 999

\* ansible.plugins.filter.core.flatten(mylist, levels): None, 'None' and
\* 'null' are skipped, a list element is spliced in while levels last.
RECURSIVE flatten(_, _)
flatten(mylist, levels) ==
    IF mylist = <<>> THEN <<>>
    ELSE LET element == Head(mylist)
             rest == flatten(Tail(mylist), levels)
         IN  IF element.t = "null" \/ (element.t = "str" /\ element.v \in {"None", "null"})
             THEN rest
             ELSE IF element.t = "list" /\ levels >= 1
             THEN flatten(element.v, levels - 1) \o rest
             ELSE <<element>> \o rest

RECURSIVE deduplicate_loop(_, _)
deduplicate_loop(mylist, deduped) ==
    IF mylist = <<>> THEN deduped
    ELSE LET item == Head(mylist)
         IN  IF \E n \in 1..Len(deduped) : PyEq(item, deduped[n])
             THEN deduplicate_loop(Tail(mylist), deduped)
             ELSE deduplicate_loop(Tail(mylist), Append(deduped, item))

deduplicate(mylist) == deduplicate_loop(mylist, <<>>)

check_type(mylist, type) == \A n \in 1..Len(mylist) : mylist[n].t = type

\* An exception raised while x was computed passes on; otherwise K goes on
\* with the value.
Then(x, K(_)) == IF IsErr(x) THEN x ELSE K(x)

\* merge_vals is a sequence of nodes; the result is a list node or an error.
merge_list(merge_vals, dedup, recursive_dict_merge) ==
    IF ~check_type(merge_vals, "list") THEN Err("MergeTypeMismatch")
    ELSE IF dedup
    THEN List(deduplicate(flatten(merge_vals, IF recursive_dict_merge THEN flatten_levels ELSE 0)))
    ELSE List(flatten(merge_vals, IF recursive_dict_merge THEN flatten_levels ELSE 0))

\* One value of merge_vals merged into `merged` (pairs), key by key from n on.
\* The recursive calls of the source pass three of the four parameters of
\* merge_list and merge_dict, so Python raises TypeError at the call.
RECURSIVE merge_dict_keys(_, _, _, _)
merge_dict_keys(merged, val, n, recursive_dict_merge) ==
    IF n > Len(val) THEN Dict(merged)
    ELSE IF ~recursive_dict_merge \/ ~HasKey(merged, val[n][1])
    THEN merge_dict_keys(Put(merged, val[n][1], val[n][2]), val, n + 1, recursive_dict_merge)
    ELSE IF Get(merged, val[n][1]).t \in {"list", "dict"}
    THEN Err("TypeError")
    ELSE merge_dict_keys(Put(merged, val[n][1], val[n][2]), val, n + 1, recursive_dict_merge)

RECURSIVE merge_dict_loop(_, _, _)
merge_dict_loop(merge_vals, merged, recursive_dict_merge) ==
    IF merge_vals = <<>> THEN Dict(merged)
    ELSE Then(merge_dict_keys(merged, Head(merge_vals).v, 1, recursive_dict_merge),
              LAMBDA m : merge_dict_loop(Tail(merge_vals), m.v, recursive_dict_merge))

merge_dict(merge_vals, dedup, recursive_dict_merge) ==
    IF ~check_type(merge_vals, "dict") THEN Err("MergeTypeMismatch")
    ELSE merge_dict_loop(merge_vals, <<>>, recursive_dict_merge)

deepmerge(merge_vals, dedup, recursive_dict_merge) ==
    IF Len(merge_vals) = 0 THEN List(<<>>)
    ELSE IF merge_vals[1].t = "list" THEN merge_list(merge_vals, dedup, recursive_dict_merge)
    ELSE IF merge_vals[1].t = "dict" THEN merge_dict(merge_vals, dedup, recursive_dict_merge)
    ELSE Err("MergeTypeMismatch")

----------------------------------------------------------------------------
(* The evaluator.  The level and in_key parameters of the source only feed *)
(* the debug messages and are left out.                                    *)

OperatorKeys == {"and", "or", "xor", "not", "if", "elif", "else"}

\* promote_re = '^(<<[|-]?)(.*)' matched against a key: group 1 and group 2.
promote_re(key) ==
    IF Len(key) >= 2 /\ SubSeq(key, 1, 2) = "<<"
    THEN IF Len(key) >= 3 /\ SubSeq(key, 3, 3) \in {"|", "-"}
         THEN [matched |-> TRUE, g1 |-> SubSeq(key, 1, 3), g2 |-> SubSeq(key, 4, Len(key))]
         ELSE [matched |-> TRUE, g1 |-> "<<", g2 |-> SubSeq(key, 3, Len(key))]
    ELSE [matched |-> FALSE, g1 |-> "", g2 |-> ""]

\* The functions of the evaluator call one another; every such call is
\* written Eval("<function>", argument).
RECURSIVE Eval(_, _)

\* A variant of logicif that hands the item back as it is, the caller's own
\* object when the item is a list or a dict.
logicif_passing(item) == item

logicif(item) ==
    IF item.t = "list" THEN Eval("logiclist", item)
    ELSE IF item.t = "dict" THEN Eval("logicdict", item)
    ELSE item

\* `for i in ret` of logicand, logicor and logicxor: what Python iterates
\* over.  A dict yields its keys and a string its characters; a bool, a
\* number or None is not iterable and the loop raises TypeError.
Iterable(r) == r.t \in {"list", "dict", "str"}

Iterate(r) ==
    IF r.t = "list" THEN r.v
    ELSE IF r.t = "dict" THEN [n \in 1..Len(r.v) |-> Str(r.v[n][1])]
    ELSE [n \in 1..Len(r.v) |-> Str(SubSeq(r.v, n, n))]

\* The operand of and/or/xor, evaluated.
Operand(item) ==
    IF item.t = "list" THEN Eval("logiclist", item)
    ELSE IF item.t = "dict" THEN Eval("logicdict", item)
    ELSE List(<<item>>)

\* A variant of logicand_loop that stops at the first false operand, as
\* Python's `and` would: the operands after it are not looked at.
RECURSIVE logicand_shortcut(_, _)
logicand_shortcut(rest, net) ==
    IF rest = <<>> THEN Bool(net)
    ELSE Then(IF Head(rest).t = "list" THEN Eval("logicand", Head(rest)) ELSE Head(rest),
              LAMBDA i : IF i.t # "bool" THEN Err("NonBooleanOperand")
                         ELSE IF ~i.v THEN Bool(FALSE)
                         ELSE logicand_shortcut(Tail(rest), net))

RECURSIVE logicand_loop(_, _)
logicand_loop(rest, net) ==
    IF rest = <<>> THEN Bool(net)
    ELSE Then(IF Head(rest).t = "list" THEN Eval("logicand", Head(rest)) ELSE Head(rest),
              LAMBDA i : IF i.t # "bool" THEN Err("NonBooleanOperand")
                         ELSE logicand_loop(Tail(rest), IF ~i.v THEN FALSE ELSE net))

logicand(item) ==
    Then(Operand(item),
         LAMBDA r : IF ~Iterable(r) THEN Err("TypeError")
                    ELSE logicand_loop(Iterate(r), TRUE))

RECURSIVE logicor_loop(_, _)
logicor_loop(rest, net) ==
    IF rest = <<>> THEN Bool(net)
    ELSE Then(IF Head(rest).t = "list" THEN Eval("logicor", Head(rest)) ELSE Head(rest),
              LAMBDA i : IF i.t # "bool" THEN Err("NonBooleanOperand")
                         ELSE logicor_loop(Tail(rest), IF i.v THEN TRUE ELSE net))

logicor(item) ==
    Then(Operand(item),
         LAMBDA r : IF ~Iterable(r) THEN Err("TypeError")
                    ELSE logicor_loop(Iterate(r), FALSE))

\* A variant of logicxor_loop that tells the parity of the count of true
\* operands, the xor of a chain of binary xors.
RECURSIVE logicxor_parity(_, _)
logicxor_parity(rest, net) ==
    IF rest = <<>> THEN Bool(net % 2 = 1)
    ELSE Then(IF Head(rest).t = "list" THEN Eval("logicxor", Head(rest)) ELSE Head(rest),
              LAMBDA i : IF i.t # "bool" THEN Err("NonBooleanOperand")
                         ELSE logicxor_parity(Tail(rest), IF i.v THEN net + 1 ELSE net))

\* A variant of logicxor_loop that counts the operands of a nested list
\* with those of the list that holds it.
RECURSIVE logicxor_flat(_, _)
logicxor_flat(rest, net) ==
    IF rest = <<>> THEN Bool(net = 1)
    ELSE IF Head(rest).t = "list" THEN logicxor_flat(Head(rest).v \o Tail(rest), net)
    ELSE IF Head(rest).t # "bool" THEN Err("NonBooleanOperand")
    ELSE logicxor_flat(Tail(rest), IF Head(rest).v THEN net + 1 ELSE net)

RECURSIVE logicxor_loop(_, _)
logicxor_loop(rest, net) ==
    IF rest = <<>> THEN Bool(net = 1)
    ELSE Then(IF Head(rest).t = "list" THEN Eval("logicxor", Head(rest)) ELSE Head(rest),
              LAMBDA i : IF i.t # "bool" THEN Err("NonBooleanOperand")
                         ELSE logicxor_loop(Tail(rest), IF i.v THEN net + 1 ELSE net))

logicxor(item) ==
    Then(Operand(item),
         LAMBDA r : IF ~Iterable(r) THEN Err("TypeError")
                    ELSE logicxor_loop(Iterate(r), 0))

\* list(map(logicnot, ret)): a list node, or the first exception.
RECURSIVE logicnot_map(_)
logicnot_map(rest) ==
    IF rest = <<>> THEN List(<<>>)
    ELSE Then(Eval("logicnot", Head(rest)),
              LAMBDA h : Then(logicnot_map(Tail(rest)),
                              LAMBDA tl : List(<<h>> \o tl.v)))

\* {k: logicnot(v) for k, v in ret.items()}: a dict node, or the first
\* exception.
RECURSIVE logicnot_items(_)
logicnot_items(rest) ==
    IF rest = <<>> THEN Dict(<<>>)
    ELSE Then(Eval("logicnot", Head(rest)[2]),
              LAMBDA h : Then(logicnot_items(Tail(rest)),
                              LAMBDA tl : Dict(<< <<Head(rest)[1], h>> >> \o tl.v)))

\* A variant of logicnot_scalar that applies Python's `not` to every scalar:
\* None, 0 and the empty string give True, every other value False.
logicnot_truth(item) ==
    IF item.t = "bool" THEN Bool(~item.v)
    ELSE Bool(item.t = "null" \/ item = Num(0) \/ item = Str(""))

\* A scalar: a bool is inverted, anything else passes.
logicnot_scalar(item) == IF item.t = "bool" THEN Bool(~item.v) ELSE item

\* A dict item is evaluated by logicdict, whose result need not be a dict
\* ({not: {not: b}} gives a bool): .items() then raises AttributeError.
logicnot(item) ==
    IF item.t = "list"
    THEN Then(Eval("logiclist", item),
              LAMBDA r : Then(logicnot_map(r.v),
                              LAMBDA m : IF Len(m.v) = 1 THEN m.v[1] ELSE m))
    ELSE IF item.t = "dict"
    THEN Then(Eval("logicdict", item),
              LAMBDA r : IF r.t # "dict" THEN Err("AttributeError")
                         ELSE logicnot_items(r.v))
    ELSE logicnot_scalar(item)

----------------------------------------------------------------------------
(* logiclist: the scan of a list with its if/elif/else chain state. *)

\* The keyword of a list item: a dict whose only key is if, elif or else.
IfKw(item) ==
    IF item.t = "dict" /\ Len(item.v) = 1 /\ item.v[1][1] \in {"if", "elif", "else"}
    THEN item.v[1][1]
    ELSE ""

Scan(r, s) == [t |-> "scan", ret |-> r, if_state |-> s]

\* val.pop(0) is true: every remaining element of val is appended.
Emit(st, val) == Scan(st.ret \o Tail(val.v), "clearing")

\* A variant of malformed that accepts a list of one element, a condition
\* with an empty body.
malformed_nonempty(if_kw, val) ==
    /\ if_kw \in {"if", "elif"}
    /\ ~(val.t = "list" /\ Len(val.v) > 0 /\ val.v[1].t = "bool")

\* The check made of every if and elif, whatever the chain state.
malformed(if_kw, val) ==
    /\ if_kw \in {"if", "elif"}
    /\ ~(val.t = "list" /\ Len(val.v) > 1 /\ val.v[1].t = "bool")

\* A variant of item_looking that takes an elif with no open chain for an
\* if; only an else is an orphan.
item_looking_lenient(st, if_kw, val) ==
    IF if_kw = "if" \/ if_kw = "elif"
    THEN IF val.v[1].v THEN Emit(st, val) ELSE Scan(st.ret, "found")
    ELSE IF if_kw = "else" THEN Err("OrphanConditional")
    ELSE Scan(Append(st.ret, val), st.if_state)

\* if_state == 'looking'
item_looking(st, if_kw, val) ==
    IF if_kw = "if"
    THEN IF val.v[1].v THEN Emit(st, val) ELSE Scan(st.ret, "found")
    ELSE IF if_kw = "elif" \/ if_kw = "else" THEN Err("OrphanConditional")
    ELSE Scan(Append(st.ret, val), st.if_state)

\* if_state == 'found'
item_found(st, if_kw, val) ==
    IF if_kw = "if"
    THEN IF val.v[1].v THEN Emit(st, val) ELSE Scan(st.ret, st.if_state)
    ELSE IF if_kw = "elif"
    THEN IF val.v[1].v THEN Emit(st, val) ELSE Scan(st.ret, st.if_state)
    ELSE IF if_kw = "else"
    THEN Scan(IF val.t = "list" THEN st.ret \o val.v ELSE Append(st.ret, val), "looking")
    ELSE Scan(Append(st.ret, val), "looking")

\* A variant of item_clearing that still takes the body of a true elif
\* after a branch of the chain has been taken.
item_clearing_greedy(st, if_kw, val) ==
    IF if_kw = "if"
    THEN IF val.v[1].v THEN Emit(st, val) ELSE Scan(st.ret, "found")
    ELSE IF if_kw = "elif"
    THEN IF val.v[1].v THEN Emit(st, val) ELSE Scan(st.ret, "clearing")
    ELSE IF if_kw = "else" THEN Scan(st.ret, "looking")
    ELSE Scan(Append(st.ret, val), "looking")

\* A variant of item_clearing in which an else still gives its body after a
\* branch of the chain has been taken.
item_clearing_else_open(st, if_kw, val) ==
    IF if_kw = "if"
    THEN IF val.v[1].v THEN Emit(st, val) ELSE Scan(st.ret, "found")
    ELSE IF if_kw = "elif" THEN Scan(st.ret, "clearing")
    ELSE IF if_kw = "else"
    THEN Scan(IF val.t = "list" THEN st.ret \o val.v ELSE Append(st.ret, val), "looking")
    ELSE Scan(Append(st.ret, val), "looking")

\* A variant of item_clearing in which an if whose condition is false
\* leaves the state as it is.
item_clearing_if_closed(st, if_kw, val) ==
    IF if_kw = "if"
    THEN IF val.v[1].v THEN Emit(st, val) ELSE Scan(st.ret, "clearing")
    ELSE IF if_kw = "elif" THEN Scan(st.ret, "clearing")
    ELSE IF if_kw = "else" THEN Scan(st.ret, "looking")
    ELSE Scan(Append(st.ret, val), "looking")

\* if_state == 'clearing'
item_clearing(st, if_kw, val) ==
    IF if_kw = "if"
    THEN IF val.v[1].v THEN Emit(st, val) ELSE Scan(st.ret, "found")
    ELSE IF if_kw = "elif" THEN Scan(st.ret, "clearing")
    ELSE IF if_kw = "else" THEN Scan(st.ret, "looking")
    ELSE Scan(Append(st.ret, val), "looking")

\* val.pop(0) is executed on val: for an if in every chain state, for an
\* elif in the state found, and for an else in the state found whose val is
\* a list that is not empty.
pops(state, if_kw, val) ==
    \/ if_kw = "if"
    \/ state = "found" /\ if_kw = "elif"
    \/ state = "found" /\ if_kw = "else" /\ val.t = "list" /\ Len(val.v) > 0

\* A dict item, evaluated to val.
item_dict(st, if_kw, val) ==
    IF malformed(if_kw, val) THEN Err("MalformedConditional")
    ELSE IF pops(st.if_state, if_kw, val) /\ val.o = "in" THEN InputMutated
    ELSE IF st.if_state = "looking" THEN item_looking(st, if_kw, val)
    ELSE IF st.if_state = "found" THEN item_found(st, if_kw, val)
    ELSE item_clearing(st, if_kw, val)

RECURSIVE logiclist_loop(_, _)

\* A variant of logiclist_item that keeps the chain state over an item that
\* is no list and no dict.
logiclist_item_keeping(st, item) ==
    IF item.t = "list"
    THEN Then(Eval("logiclist", item), LAMBDA val : Scan(Append(st.ret, val), "looking"))
    ELSE IF item.t = "dict"
    THEN Then(Eval("logicdict", item), LAMBDA val : item_dict(st, IfKw(item), val))
    ELSE Scan(Append(st.ret, item), st.if_state)

\* A variant of logiclist_item that scans a nested list from the chain state
\* of the list that holds it.
logiclist_item_inheriting(st, item) ==
    IF item.t = "list"
    THEN Then(logiclist_loop(item.v, Scan(<<>>, st.if_state)),
              LAMBDA val : Scan(Append(st.ret, val), "looking"))
    ELSE IF item.t = "dict"
    THEN Then(Eval("logicdict", item), LAMBDA val : item_dict(st, IfKw(item), val))
    ELSE Scan(Append(st.ret, item), "looking")

\* A variant of logiclist_item that appends the evaluated nested list
\* wrapped in a list of its own.
logiclist_item_nesting(st, item) ==
    IF item.t = "list"
    THEN Then(Eval("logiclist", item),
              LAMBDA val : Scan(Append(st.ret, List(<<val>>)), "looking"))
    ELSE IF item.t = "dict"
    THEN Then(Eval("logicdict", item), LAMBDA val : item_dict(st, IfKw(item), val))
    ELSE Scan(Append(st.ret, item), "looking")

\* One pass of the loop body over `item`, from the scan state st: the new
\* scan state, or the exception raised.
logiclist_item(st, item) ==
    IF item.t = "list"
    THEN Then(Eval("logiclist", item), LAMBDA val : Scan(Append(st.ret, val), "looking"))
    ELSE IF item.t = "dict"
    THEN Then(Eval("logicdict", item), LAMBDA val : item_dict(st, IfKw(item), val))
    ELSE Scan(Append(st.ret, item), "looking")

logiclist_loop(rest, st) ==
    IF rest = <<>> THEN List(st.ret)
    ELSE Then(logiclist_item(st, Head(rest)),
              LAMBDA nx : logiclist_loop(Tail(rest), nx))

logiclist(mylist) == logiclist_loop(mylist.v, Scan(<<>>, "looking"))

----------------------------------------------------------------------------
(* logicdict: the keys of a dict evaluated in order, then the promotion of *)
(* the keys that promote_re matches.                                       *)

\* A variant of logicdict_key whose `else` branch lacks the keycount check.
\* An ordinary key that follows finds ret to be no dict, and ret[key] = ...
\* raises TypeError.
logicdict_key_unchecked(mydict, n, res) ==
    LET key == mydict.v[n][1]
        value == mydict.v[n][2]
        keycount == Len(mydict.v)
    IN  IF key \in OperatorKeys
        THEN IF keycount > 1 /\ key # "else" THEN Err("MultipleOperatorKeys")
             ELSE IF key = "and" THEN Eval("logicand", value)
             ELSE IF key = "or" THEN Eval("logicor", value)
             ELSE IF key = "xor" THEN Eval("logicxor", value)
             ELSE IF key = "not" THEN Eval("logicnot", value)
             ELSE logicif(value)
        ELSE IF res.t # "dict" THEN Err("TypeError")
        ELSE Then(IF value.t = "list" THEN Eval("logiclist", value)
                  ELSE IF value.t = "dict" THEN Eval("logicdict", value)
                  ELSE value,
                  LAMBDA x : Dict(Put(res.v, key, x)))

\* The pass of the first loop over the n-th key of mydict, res being the
\* result so far.
logicdict_key(mydict, n, res) ==
    LET key == mydict.v[n][1]
        value == mydict.v[n][2]
        keycount == Len(mydict.v)
    IN  IF key \in OperatorKeys
        THEN IF keycount > 1 THEN Err("MultipleOperatorKeys")
             ELSE IF key = "and" THEN Eval("logicand", value)
             ELSE IF key = "or" THEN Eval("logicor", value)
             ELSE IF key = "xor" THEN Eval("logicxor", value)
             ELSE IF key = "not" THEN Eval("logicnot", value)
             ELSE logicif(value)
        ELSE Then(IF value.t = "list" THEN Eval("logiclist", value)
                  ELSE IF value.t = "dict" THEN Eval("logicdict", value)
                  ELSE value,
                  LAMBDA x : Dict(Put(res.v, key, x)))

RECURSIVE logicdict_keys(_, _, _)
logicdict_keys(mydict, n, res) ==
    IF n > Len(mydict.v) THEN res
    ELSE Then(logicdict_key(mydict, n, res),
              LAMBDA nx : logicdict_keys(mydict, n + 1, nx))

\* A variant of promote_dict that hands deepmerge the promoted value first
\* and the existing value second.
RECURSIVE promote_dict_swapped(_, _, _, _, _)
promote_dict_swapped(res, promoted, n, merge, dedup) ==
    IF n > Len(promoted) THEN Dict(res)
    ELSE IF merge /\ HasKey(res, promoted[n][1])
    THEN Then(deepmerge(<<promoted[n][2], Get(res, promoted[n][1])>>, dedup, merge),
              LAMBDA m : promote_dict_swapped(Append(Pop(res, promoted[n][1]), <<promoted[n][1], m>>),
                                              promoted, n + 1, merge, dedup))
    ELSE promote_dict_swapped(Put(res, promoted[n][1], promoted[n][2]), promoted, n + 1, merge, dedup)

\* The keys of one promoted dict (pairs `promoted`, from the n-th on) moved
\* into res (pairs): merged into an existing key when merge is set, put
\* otherwise.  A dict node, or the exception of deepmerge.
RECURSIVE promote_dict(_, _, _, _, _)
promote_dict(res, promoted, n, merge, dedup) ==
    IF n > Len(promoted) THEN Dict(res)
    ELSE IF merge /\ HasKey(res, promoted[n][1])
    THEN Then(deepmerge(<<Get(res, promoted[n][1]), promoted[n][2]>>, dedup, merge),
              LAMBDA m : promote_dict(Append(Pop(res, promoted[n][1]), <<promoted[n][1], m>>),
                                      promoted, n + 1, merge, dedup))
    ELSE promote_dict(Put(res, promoted[n][1], promoted[n][2]), promoted, n + 1, merge, dedup)

\* A variant of promote_reversed that promotes the dict elements of tmp from
\* the first to the last: i counts the elements still to come.
RECURSIVE promote_forward(_, _, _, _, _)
promote_forward(res, tmp, i, merge, dedup) ==
    IF i = 0 THEN Dict(res)
    ELSE IF tmp[Len(tmp) - i + 1].t = "dict"
    THEN Then(promote_dict(res, tmp[Len(tmp) - i + 1].v, 1, merge, dedup),
              LAMBDA nx : promote_forward(nx.v, tmp, i - 1, merge, dedup))
    ELSE promote_forward(res, tmp, i - 1, merge, dedup)

\* for i in reversed(range(len(tmp))): the dict elements of tmp are promoted
\* from the last to the first; tmp[i].pop(k) changes a tmp[i] that has keys.
RECURSIVE promote_reversed(_, _, _, _, _)
promote_reversed(res, tmp, i, merge, dedup) ==
    IF i = 0 THEN Dict(res)
    ELSE IF tmp[i].t = "dict" /\ tmp[i].o = "in" /\ Len(tmp[i].v) > 0
    THEN InputMutated
    ELSE IF tmp[i].t = "dict"
    THEN Then(promote_dict(res, tmp[i].v, 1, merge, dedup),
              LAMBDA nx : promote_reversed(nx.v, tmp, i - 1, merge, dedup))
    ELSE promote_reversed(res, tmp, i - 1, merge, dedup)

\* ret[group 2] = tmp[0] if tmp has one element, tmp otherwise.
promote_assign(res, g2, tmp) ==
    IF Len(tmp) = 1 THEN Dict(Put(res, g2, tmp[1])) ELSE Dict(Put(res, g2, List(tmp)))

\* A variant of promote_left that keeps the elements left in a list under
\* the key named by group 2, one element or many.
promote_left_listed(res, left, g2, merge, dedup) ==
    IF Len(left) > 0 /\ Len(g2) > 0
    THEN IF merge /\ HasKey(res, g2)
         THEN Then(deepmerge(<<Get(res, g2), List(left)>>, dedup, merge),
                   LAMBDA merged : Dict(Put(Pop(res, g2), g2, merged)))
         ELSE Dict(Put(res, g2, List(left)))
    ELSE Dict(res)

\* A variant of promote_left that assigns the elements left whatever the
\* name of group 2, the empty name too.
promote_left_unnamed(res, left, g2, merge, dedup) ==
    IF Len(left) > 0
    THEN IF merge /\ HasKey(res, g2)
         THEN Then(deepmerge(<<Get(res, g2), List(left)>>, dedup, merge),
                   LAMBDA merged : promote_assign(Pop(res, g2), g2, merged.v))
         ELSE promote_assign(res, g2, left)
    ELSE Dict(res)

\* The elements of tmp that are no dicts (left) go to the key named by
\* group 2 of the match, when there is one.
promote_left(res, left, g2, merge, dedup) ==
    IF Len(left) > 0 /\ Len(g2) > 0
    THEN IF merge /\ HasKey(res, g2)
         THEN Then(deepmerge(<<Get(res, g2), List(left)>>, dedup, merge),
                   LAMBDA merged : promote_assign(Pop(res, g2), g2, merged.v))
         ELSE promote_assign(res, g2, left)
    ELSE Dict(res)

\* tmp = ret.pop(key), made a list, and promoted into res (pairs).
promote_value(res, tmp, g2, merge, dedup) ==
    Then(promote_reversed(res, tmp, Len(tmp), merge, dedup),
         LAMBDA promoted : promote_left(promoted.v, SelectSeq(tmp, LAMBDA e : e.t # "dict"),
                                        g2, merge, dedup))

\* A variant of promote_key that reads ret[key] and leaves the key in ret.
promote_key_kept(res, key) ==
    LET mo == promote_re(key)
    IN  IF ~mo.matched THEN res
        ELSE promote_value(res.v,
                           IF Get(res.v, key).t = "list" THEN Get(res.v, key).v
                           ELSE <<Get(res.v, key)>>,
                           mo.g2, mo.g1 \in {"<<-", "<<|"}, mo.g1 = "<<-")

\* The pass of the second loop over `key`, res being the dict node so far.
\* ret.pop(key) changes ret, and del tmp[i] changes a tmp that is a list.
promote_key(res, key) ==
    LET mo == promote_re(key)
    IN  IF ~mo.matched THEN res
        ELSE IF res.o = "in" THEN InputMutated
        ELSE IF /\ Get(res.v, key).t = "list"
                /\ Get(res.v, key).o = "in"
                /\ \E n \in 1..Len(Get(res.v, key).v) : Get(res.v, key).v[n].t = "dict"
        THEN InputMutated
        ELSE promote_value(Pop(res.v, key),
                           IF Get(res.v, key).t = "list" THEN Get(res.v, key).v
                           ELSE <<Get(res.v, key)>>,
                           mo.g2, mo.g1 \in {"<<-", "<<|"}, mo.g1 = "<<-")

\* for key in list(ret): the keys are those ret has when the loop starts.
RECURSIVE promote_keys(_, _)
promote_keys(res, todo) ==
    IF todo = <<>> THEN res
    ELSE Then(promote_key(res, Head(todo)),
              LAMBDA nx : promote_keys(nx, Tail(todo)))

logicdict(mydict) ==
    Then(logicdict_keys(mydict, 1, Dict(<<>>)),
         LAMBDA res : IF res.t = "dict" THEN promote_keys(res, Keys(res.v)) ELSE res)

Eval(f, x) ==
    IF f = "logicdict" THEN logicdict(x)
    ELSE IF f = "logiclist" THEN logiclist(x)
    ELSE IF f = "logicand" THEN logicand(x)
    ELSE IF f = "logicor" THEN logicor(x)
    ELSE IF f = "logicxor" THEN logicxor(x)
    ELSE logicnot(x)

logical(t) ==
    IF t.t = "dict" THEN logicdict(t)
    ELSE IF t.t = "list" THEN logiclist(t)
    ELSE t

----------------------------------------------------------------------------
(* The data the filter is applied to: lists that hold if/elif/else chains, *)
(* operator dicts, dicts with promotion keys, and dicts that mix an        *)
(* operator key with other keys, at several places of a tree.              *)

MaxItems == 3
MaxElifs == 2
MaxOperands == 3

T == Bool(TRUE)
F == Bool(FALSE)

D1(k, x) == Dict(<< <<k, x>> >>)
D2(k1, x1, k2, x2) == Dict(<< <<k1, x1>>, <<k2, x2>> >>)

\* The sequences over S of length at most n.
SeqsUpTo(S, n) == UNION {[1..m -> S] : m \in 0..n}

ListItems ==
    { D1("if", List(<<T, Str("A")>>)),
      D1("if", List(<<F, Str("A")>>)),
      D1("elif", List(<<T, Str("B")>>)),
      D1("elif", List(<<F, Str("B")>>)),
      D1("else", List(<<Str("C")>>)),
      D1("else", Str("C")),
      D1("if", List(<<T>>)),
      D1("elif", Str("B")),
      D1("k", Str("V")),
      List(<<Str("N")>>),
      Str("S") }

ListInputs == {List(q) : q \in SeqsUpTo(ListItems, MaxItems)}

\* A chain: one if, some elifs, one else, all well formed.
IfItems ==
    { D1("if", List(<<c, Str("A")>>)) : c \in {T, F} }
    \cup { D1("if", List(<<c, List(<<Str("A")>>), D1("not", T)>>)) : c \in {T, F} }
    \cup { D1("if", List(<<D1("or", List(<<F, T>>)), Str("A")>>)) }

ElifItems ==
    { D1("elif", List(<<c, Str("B")>>)) : c \in {T, F} }
    \cup { D1("elif", List(<<D1("and", List(<<T, c>>)), Str("B"), Num(2)>>)) : c \in {T, F} }

ElseItems ==
    { D1("else", List(<<Str("C")>>)),
      D1("else", List(<<Str("C"), List(<<Str("D")>>)>>)),
      D1("else", List(<<>>)),
      D1("else", Str("C")),
      D1("else", D1("k", Str("V"))) }

ChainInputs ==
    { List(<<i>> \o q \o <<e>>) :
        i \in IfItems, q \in SeqsUpTo(ElifItems, MaxElifs), e \in ElseItems }

\* An if or elif whose value is not [bool, body...], in each chain state.
MalformedValues ==
    { Str("A"), Null, List(<<>>), List(<<T>>), List(<<Str("x"), Str("A")>>),
      List(<<Num(1), Str("A")>>), List(<<List(<<T>>), Str("A")>>), D1("k", Str("V")),
      D1("not", List(<<T, F>>)) }

ChainPrefixes ==
    { <<>>, <<D1("if", List(<<F, Str("A")>>))>>, <<D1("if", List(<<T, Str("A")>>))>> }

MalformedInputs ==
    { List(q \o <<D1(kw, x)>>) :
        q \in ChainPrefixes, kw \in {"if", "elif", "else"}, x \in MalformedValues }

\* and, or, xor over lists of operands, and over a bare operand.
Operands == { T, F, Str("x"), List(<<T, T>>), List(<<F, Str("x")>>), List(<<>>) }

BareOperands ==
    { T, F, Str("x"), Str(""), Num(1), Null, D1("not", F), D1("a", T), Dict(<<>>) }

BoolInputs ==
    { D1(op, List(q)) : op \in {"and", "or", "xor"}, q \in SeqsUpTo(Operands, MaxOperands) }
    \cup { D1(op, x) : op \in {"and", "or", "xor"}, x \in BareOperands }

NotInputs ==
    { D1("not", x) : x \in { T, F, Str("x"), Str(""), Num(0), Num(1), Null } }
    \cup { D1("not", D1("not", b)) : b \in {T, F} }
    \cup { D1("not", x) : x \in { List(<<T, F>>), List(<<T>>), List(<<>>),
                                  D2("a", T, "b", Str("x")), D1("and", List(<<T, F>>)),
                                  List(<<List(<<T>>), Num(1)>>) } }

\* A dict that holds an operator key and another key, at several places of
\* a tree: evaluated bodies, discarded branches, operands, promoted content.
OperatorValue(k) ==
    IF k \in {"and", "or", "xor"} THEN List(<<T>>)
    ELSE IF k = "not" THEN T
    ELSE List(<<T, Str("A")>>)

MixedDicts ==
    { D2(k, OperatorValue(k), "k", Str("V")) : k \in OperatorKeys }
    \cup { D2("k", Str("V"), k, OperatorValue(k)) : k \in OperatorKeys }
    \cup { D2("and", List(<<T>>), "or", List(<<F>>)),
           D2("not", T, "<<", D1("a", Num(1))),
           Dict(<< <<"j", Num(1)>>, <<"else", List(<<Str("C")>>)>>, <<"k", Num(2)>> >>) }

Places(x) ==
    { x,
      List(<<x>>),
      List(<<Str("S"), x>>),
      List(<<List(<<x>>)>>),
      D1("k", x),
      D1("k", List(<<x>>)),
      List(<<D1("if", List(<<F, x>>))>>),
      List(<<D1("if", List(<<T, Str("A")>>)), D1("elif", List(<<T, x>>))>>),
      List(<<D1("if", List(<<T, Str("A")>>)), D1("else", List(<<x>>))>>),
      D1("and", List(<<F, x>>)),
      D1("or", x),
      D1("not", x),
      D1("not", List(<<x>>)),
      D1("<<", x),
      D2("a", Num(1), "<<|", List(<<x>>)) }

MixedInputs == UNION {Places(x) : x \in MixedDicts}

\* Dicts with one ordinary key "a" and one promotion key, in both orders,
\* and dicts whose only key is a promotion key.
PromotionKeys == {"<<", "<<|", "<<-", "<<x", "<<|x", "<<-x", "<<a", "<<|a"}

ExistingValues ==
    { List(<<Num(1), Num(2)>>),
      List(<<List(<<Num(1)>>), Num(2)>>),
      List(<<Num(1), Null>>),
      List(<<T, Num(1)>>),
      D1("x", Num(1)),
      D1("l", List(<<Num(1)>>)),
      Num(5) }

PromotedValues ==
    { List(<<Num(2), Num(3)>>),
      List(<<Num(2), List(<<Num(3), List(<<Num(1)>>)>>)>>),
      List(<<Num(1), Num(1), T>>),
      List(<<D1("if", List(<<T, Num(2)>>))>>),
      D1("y", Num(2)),
      D1("l", List(<<Num(2)>>)),
      Num(7) }

FewValues == { List(<<Num(2), Num(3)>>), List(<<Num(1)>>), Num(7) }

Scalars == { Num(5), Str("s"), Null, T }

PromotedContents ==
    { D1("a", x) : x \in PromotedValues }
    \cup { List(<<D1("a", x)>>) : x \in PromotedValues }
    \cup { D2("a", x, "b", Num(1)) : x \in FewValues }
    \cup { List(<<D1("a", x), D1("a", y)>>) : x \in FewValues, y \in FewValues }
    \cup { List(<<D1("a", x), Num(8), Num(9)>>) : x \in FewValues }
    \cup { List(<<Num(8), D1("a", x)>>) : x \in FewValues }
    \cup Scalars
    \cup { List(<<Num(5)>>), List(<<Num(5), Num(6)>>), List(<<>>) }

PromotionInputs ==
    { D2("a", x, k, c) : x \in ExistingValues, k \in PromotionKeys, c \in PromotedContents }
    \cup { D2(k, c, "a", x) : x \in ExistingValues, k \in PromotionKeys, c \in PromotedContents }
    \cup { D1(k, c) : k \in PromotionKeys, c \in PromotedContents }

\* Lists with a chain restarted by a second if, and with conditionals in a
\* nested list.
NestedInputs ==
    { List(<<D1("if", List(<<T, Str("A")>>)), D1("if", List(<<F, Str("B")>>)),
             D1("else", List(<<Str("C")>>))>>),
      List(<<D1("if", List(<<F, Str("A")>>)), List(<<D1("else", List(<<Str("B")>>))>>)>>),
      List(<<D1("if", List(<<F, Str("A")>>)),
             List(<<D1("if", List(<<F, Str("A")>>)), D1("else", List(<<Str("C")>>))>>),
             D1("else", List(<<Str("C")>>))>>),
      List(<<D1("if", List(<<T, Str("A")>>)),
             List(<<D1("if", List(<<T, Str("B")>>)), D1("elif", List(<<T, Str("B")>>))>>),
             D1("k", Str("V"))>>) }

\* Operands grouped in lists, two deep.
GroupInputs ==
    { D1(op, List(<<List(<<List(<<T, T>>), c>>), d>>)) :
        op \in {"and", "or", "xor"}, c \in {T, F}, d \in {T, F} }

\* Promoted lists with dicts between elements that are no dicts, alone and
\* beside an ordinary key x.
RemainderContent ==
    List(<<Num(8), D1("a", Num(1)), Num(9), D1("b", Num(2)), Str("s")>>)

RemainderInputs ==
    { D1(k, RemainderContent) : k \in PromotionKeys }
    \cup { D2("x", e, k, RemainderContent) : k \in PromotionKeys, e \in {Num(0), List(<<Num(0)>>)} }

\* Dicts with the ordinary keys a and c and a promotion key before, between
\* and after them; and a promoted dict that has a promotion key of its own,
\* whose suffix is the name of the key that holds it.
PlacementContents ==
    { D2("a", List(<<Num(2)>>), "c", Num(4)),
      List(<<D1("a", List(<<Num(2)>>)), Num(8)>>) }

PlacementInputs ==
    UNION { { Dict(<< <<k, c>>, <<"a", e>>, <<"c", Num(3)>> >>),
              Dict(<< <<"a", e>>, <<k, c>>, <<"c", Num(3)>> >>),
              Dict(<< <<"a", e>>, <<"c", Num(3)>>, <<k, c>> >>) } :
            k \in {"<<", "<<|", "<<c"}, c \in PlacementContents,
            e \in {List(<<Num(1)>>), Num(5)} }
    \cup { D2("a", Num(1), "<<", D1("<<<<", Num(5))),
           D2("<<", D1("<<<<", Num(5)), "a", Num(1)) }

Inputs ==
    ListInputs \cup ChainInputs \cup MalformedInputs \cup BoolInputs \cup NotInputs
    \cup MixedInputs \cup PromotionInputs \cup NestedInputs \cup GroupInputs
    \cup RemainderInputs \cup PlacementInputs

----------------------------------------------------------------------------
(* The process starts with no call made (Init).                            *)
(*                                                                         *)
(* One call of logical(terms).  A dict or a scalar is evaluated in one     *)
(* step; a list is scanned item by item, the chain state if_state being    *)
(* kept from one item to the next.  An exception ends the call: pc is      *)
(* "failed" and result holds the exception.                                *)

Init ==
    /\ pc = "idle"
    /\ terms = Null
    /\ idx = 0
    /\ ret = <<>>
    /\ if_state = "looking"
    /\ result = Null
    /\ allows = {}
    /\ src_types = {}
    /\ tgt_types = {}
    /\ tgt_classes = {}
    /\ keys = <<>>
    /\ resolving_strings = <<>>
    /\ seen = <<>>
    /\ frames = <<>>
    /\ newret = Null
    /\ changes = 0

CallDict ==
    /\ pc = "idle"
    /\ \E t \in Inputs :
          /\ t.t = "dict"
          /\ terms' = t
          /\ \E r \in {logical(Caller(t))} :
                /\ result' = r
                /\ pc' = IF IsErr(r) THEN "failed" ELSE "done"
    /\ UNCHANGED <<idx, ret, if_state, other_plugins>>

CallList ==
    /\ pc = "idle"
    /\ \E t \in Inputs :
          /\ t.t = "list"
          /\ terms' = t
    /\ pc' = "logiclist"
    /\ idx' = 1
    /\ ret' = <<>>
    /\ if_state' = "looking"
    /\ UNCHANGED <<result, other_plugins>>

CallScalar ==
    /\ pc = "idle"
    /\ \E t \in Scalars \cup {F} :
          /\ terms' = t
          /\ result' = logical(t)
    /\ pc' = "done"
    /\ UNCHANGED <<idx, ret, if_state, other_plugins>>

Item ==
    /\ pc = "logiclist"
    /\ idx <= Len(terms.v)
    /\ \E nx \in {logiclist_item(Scan(ret, if_state), Caller(terms.v[idx]))} :
           IF IsErr(nx)
           THEN /\ pc' = "failed"
                /\ result' = nx
                /\ UNCHANGED <<idx, ret, if_state>>
           ELSE /\ idx' = idx + 1
                /\ ret' = nx.ret
                /\ if_state' = nx.if_state
                /\ UNCHANGED <<pc, result>>
    /\ UNCHANGED <<terms, other_plugins>>

Return ==
    /\ pc = "logiclist"
    /\ idx > Len(terms.v)
    /\ result' = List(ret)
    /\ pc' = "done"
    /\ UNCHANGED <<terms, idx, ret, if_state, other_plugins>>

Next ==
    \/ CallDict
    \/ CallList
    \/ CallScalar
    \/ Item
    \/ Return

Spec == Init /\ [][Next]_vars

----------------------------------------------------------------------------
(* The mergevars lookup (plugins/lookup/mergevars.py).  A call is          *)
(* run(terms, variables, regex=, dedup=, recursive=).  The values merged   *)
(* hold no template, so that self._templar.template() leaves them as they  *)
(* are.                                                                    *)

\* The characters of the names sorted here, in the order of their codes.
Alphabet == "_abcdefghijklmnopqrstuvwxyz"

CharRank(c) == CHOOSE i \in 1..Len(Alphabet) : SubSeq(Alphabet, i, i) = c

\* a < b on Python strings.
RECURSIVE StrLess(_, _)
StrLess(a, b) ==
    IF Len(b) = 0 THEN FALSE
    ELSE IF Len(a) = 0 THEN TRUE
    ELSE IF SubSeq(a, 1, 1) = SubSeq(b, 1, 1)
    THEN StrLess(SubSeq(a, 2, Len(a)), SubSeq(b, 2, Len(b)))
    ELSE CharRank(SubSeq(a, 1, 1)) < CharRank(SubSeq(b, 1, 1))

\* sorted() of a set of strings.
RECURSIVE sorted(_)
sorted(S) ==
    IF S = {} THEN <<>>
    ELSE <<CHOOSE x \in S : \A y \in S \ {x} : StrLess(x, y)>>
         \o sorted(S \ {CHOOSE x \in S : \A y \in S \ {x} : StrLess(x, y)})

\* re.match(varpat, key) for a pattern made of an optional "^", a literal
\* text and an optional ".*": the key starts with the text.
re_literal(varpat) ==
    SubSeq(varpat,
           IF Len(varpat) >= 1 /\ SubSeq(varpat, 1, 1) = "^" THEN 2 ELSE 1,
           IF Len(varpat) >= 2 /\ SubSeq(varpat, Len(varpat) - 1, Len(varpat)) = ".*"
           THEN Len(varpat) - 2 ELSE Len(varpat))

re_match(varpat, key) ==
    /\ Len(key) >= Len(re_literal(varpat))
    /\ SubSeq(key, 1, Len(re_literal(varpat))) = re_literal(varpat)

\* key in keys, by Python's ==.
InKeys(key, ks) == \E n \in 1..Len(ks) : PyEq(ks[n], key)

\* for key in terms: a term that is no string is kept as it is, a string is
\* kept when it is not yet in keys and names a variable.
RECURSIVE listed_keys(_, _, _)
listed_keys(rest, variables, ks) ==
    IF rest = <<>> THEN ks
    ELSE IF Head(rest).t # "str"
    THEN listed_keys(Tail(rest), variables, Append(ks, Head(rest)))
    ELSE IF ~InKeys(Head(rest), ks) /\ HasKey(variables, Head(rest).v)
    THEN listed_keys(Tail(rest), variables, Append(ks, Head(rest)))
    ELSE listed_keys(Tail(rest), variables, ks)

\* A variant of matched_keys that also takes the names keys already holds.
RECURSIVE matched_keys_again(_, _, _)
matched_keys_again(names, varpat, ks) ==
    IF names = <<>> THEN ks
    ELSE IF re_match(varpat, Head(names))
    THEN matched_keys_again(Tail(names), varpat, Append(ks, Str(Head(names))))
    ELSE matched_keys_again(Tail(names), varpat, ks)

\* for key in sorted(variables.keys()): names is the sorted sequence.
RECURSIVE matched_keys(_, _, _)
matched_keys(names, varpat, ks) ==
    IF names = <<>> THEN ks
    ELSE IF ~InKeys(Str(Head(names)), ks) /\ re_match(varpat, Head(names))
    THEN matched_keys(Tail(names), varpat, Append(ks, Str(Head(names))))
    ELSE matched_keys(Tail(names), varpat, ks)

\* The keys to merge, in the order of the merge.
select_keys(call) ==
    IF Len(call.regex) > 0
    THEN matched_keys(sorted({call.variables[n][1] : n \in 1..Len(call.variables)}),
                      call.regex, listed_keys(call.terms, call.variables, <<>>))
    ELSE listed_keys(call.terms, call.variables, <<>>)

\* An int (a bool is one) or a str is merged as a list of one element.
wrap_scalar(val) == IF val.t \in {"num", "bool", "str"} THEN List(<<val>>) ELSE val

\* merge_vals, from the keys.
merge_values(ks, variables) ==
    [n \in 1..Len(ks) |->
        wrap_scalar(IF ks[n].t = "str" THEN Get(variables, ks[n].v) ELSE ks[n])]

\* A variant of mergevars_merge_list that does not check the types of the
\* values.
mergevars_merge_list_unchecked(merge_vals, dedup, recursive_dict_merge) ==
    IF dedup
    THEN List(deduplicate(flatten(merge_vals, IF recursive_dict_merge THEN flatten_levels ELSE 0)))
    ELSE List(flatten(merge_vals, IF recursive_dict_merge THEN flatten_levels ELSE 0))

mergevars_merge_list(merge_vals, dedup, recursive_dict_merge) ==
    IF ~check_type(merge_vals, "list") THEN Err("MergeTypeMismatch")
    ELSE IF dedup
    THEN List(deduplicate(flatten(merge_vals, IF recursive_dict_merge THEN flatten_levels ELSE 0)))
    ELSE List(flatten(merge_vals, IF recursive_dict_merge THEN flatten_levels ELSE 0))

RECURSIVE mergevars_merge_dict(_, _, _)

\* One value of merge_vals merged into `merged` (pairs), key by key from n on.
RECURSIVE mergevars_merge_dict_keys(_, _, _, _, _)
mergevars_merge_dict_keys(merged, val, n, dedup, recursive_dict_merge) ==
    IF n > Len(val) THEN Dict(merged)
    ELSE IF ~recursive_dict_merge \/ ~HasKey(merged, val[n][1])
    THEN mergevars_merge_dict_keys(Put(merged, val[n][1], val[n][2]), val, n + 1,
                                   dedup, recursive_dict_merge)
    ELSE IF Get(merged, val[n][1]).t = "list"
    THEN Then(mergevars_merge_list(<<Get(merged, val[n][1]), val[n][2]>>,
                                   dedup, recursive_dict_merge),
              LAMBDA m : mergevars_merge_dict_keys(Put(merged, val[n][1], m), val, n + 1,
                                                   dedup, recursive_dict_merge))
    ELSE IF Get(merged, val[n][1]).t = "dict"
    THEN Then(mergevars_merge_dict(<<Get(merged, val[n][1]), val[n][2]>>,
                                   dedup, recursive_dict_merge),
              LAMBDA m : mergevars_merge_dict_keys(Put(merged, val[n][1], m), val, n + 1,
                                                   dedup, recursive_dict_merge))
    ELSE mergevars_merge_dict_keys(Put(merged, val[n][1], val[n][2]), val, n + 1,
                                   dedup, recursive_dict_merge)

RECURSIVE mergevars_merge_dict_loop(_, _, _, _)
mergevars_merge_dict_loop(merge_vals, merged, dedup, recursive_dict_merge) ==
    IF merge_vals = <<>> THEN Dict(merged)
    ELSE Then(mergevars_merge_dict_keys(merged, Head(merge_vals).v, 1, dedup, recursive_dict_merge),
              LAMBDA m : mergevars_merge_dict_loop(Tail(merge_vals), m.v, dedup,
                                                   recursive_dict_merge))

mergevars_merge_dict(merge_vals, dedup, recursive_dict_merge) ==
    IF ~check_type(merge_vals, "dict") THEN Err("MergeTypeMismatch")
    ELSE mergevars_merge_dict_loop(merge_vals, <<>>, dedup, recursive_dict_merge)

\* The dispatch on the type of the first value, and the list returned.
merge_selected(merge_vals, dedup, recursive_dict_merge) ==
    Then(IF Len(merge_vals) = 0 THEN List(<<>>)
         ELSE IF merge_vals[1].t = "list"
         THEN mergevars_merge_list(merge_vals, dedup, recursive_dict_merge)
         ELSE IF merge_vals[1].t = "dict"
         THEN mergevars_merge_dict(merge_vals, dedup, recursive_dict_merge)
         ELSE Err("MergeTypeMismatch"),
         LAMBDA merged : List(<<merged>>))

\* The calls made: bounds and arguments.
MaxTerms == 2

ListVariables ==
    << <<"m_b", List(<<Num(1)>>)>>, <<"m_a", List(<<Num(2), Num(1)>>)>>,
       <<"x", List(<<Num(3)>>)>>, <<"m_c", List(<<List(<<Num(4)>>)>>)>> >>

DictVariables ==
    << <<"m_b", D1("k", Num(1))>>, <<"m_a", D2("k", Num(2), "l", List(<<Num(1)>>))>>,
       <<"x", D2("l", List(<<Num(2)>>), "d", D1("j", Num(1)))>>,
       <<"m_c", D2("d", D1("i", Num(2)), "k", Num(3))>> >>

MixedVariables ==
    << <<"m_b", List(<<Num(1)>>)>>, <<"m_a", D1("k", Num(2))>>,
       <<"x", Num(5)>>, <<"m_c", Str("s")>>, <<"y", Null>>, <<"m", T>> >>

MergevarsTerms ==
    { Str("x"), Str("m_b"), Str("m_a"), Str("y"), Str("u"), List(<<Num(9)>>), D1("k", Num(9)) }

MergevarsCalls ==
    [ terms : SeqsUpTo(MergevarsTerms, MaxTerms),
      variables : {ListVariables, DictVariables, MixedVariables},
      regex : {"", "^m_", "m_.*", "x"},
      dedup : BOOLEAN,
      recursive : BOOLEAN ]

\* run(), down to the message that tells the merge order.
Select ==
    /\ pc = "idle"
    /\ \E call \in MergevarsCalls :
          /\ terms' = call
          /\ keys' = select_keys(call)
    /\ pc' = "selected"
    /\ UNCHANGED <<idx, ret, if_state, result, allow2te_globals, netspec_state, changes>>

\* run(), from there on: the values are merged.
Merge ==
    /\ pc = "selected"
    /\ \E r \in {merge_selected(merge_values(keys, terms.variables),
                                terms.dedup, terms.recursive)} :
          /\ result' = r
          /\ pc' = IF IsErr(r) THEN "failed" ELSE "done"
    /\ UNCHANGED <<terms, keys, idx, ret, if_state, allow2te_globals, netspec_state, changes>>

NextMergevars ==
    \/ Select
    \/ Merge

SpecMergevars == Init /\ [][NextMergevars]_vars

----------------------------------------------------------------------------
(* The allow2te filter (plugins/filter/allow2te.py).  A rule is given as   *)
(* re_grouping and re_allowprime take it apart: allow tells whether the    *)
(* text is an allow rule, src, tgt and act hold the names written at the   *)
(* place of the source type, the target type and the action (several when  *)
(* written between braces), cls the target class.  The .te stream is the   *)
(* sequence of its lines, each line the tuple of its words; the lists of   *)
(* the module are kept as sets, since they are read through sorted() only. *)

Range(s) == {s[n] : n \in 1..Len(s)}

\* The sequences of ss, one after the other.
RECURSIVE Concat(_)
Concat(ss) == IF ss = <<>> THEN <<>> ELSE Head(ss) \o Concat(Tail(ss))

\* degroup: every rule with braces is replaced by one rule for each name
\* between them; what is no allow rule is dropped by regularize.  The set of
\* <<src_t, tgt_t, tgt_c, action>> that regularize is called with.
degroup(rules) ==
    UNION { {<<s, t, rules[n].cls, a>> :
                s \in Range(rules[n].src), t \in Range(rules[n].tgt), a \in Range(rules[n].act)} :
            n \in {m \in 1..Len(rules) : rules[m].allow} }

\* regularize, for each of these: what the module-level variables become.
regularize_src_types(old, regular) == old \cup {r[1] : r \in regular}
regularize_tgt_types(old, regular) == old \cup {r[2] : r \in regular}
regularize_tgt_classes(old, regular) == old \cup {<<r[3], r[4]>> : r \in regular}
regularize_allows(old, regular) == old \cup regular

\* regroup(lst): the sorted names.
regroup(lst) == sorted(lst)

\* os.path.split(te_name)[1]: what follows the last "/".
RECURSIVE basename(_, _)
basename(path, n) ==
    IF n = 0 THEN path
    ELSE IF SubSeq(path, n, n) = "/" THEN SubSeq(path, n + 1, Len(path))
    ELSE basename(path, n - 1)

\* os.path.splitext(file)[0]: what precedes the last ".", a leading one
\* apart.
RECURSIVE splitext(_, _)
splitext(file, n) ==
    IF n <= 1 THEN file
    ELSE IF SubSeq(file, n, n) = "." THEN SubSeq(file, 1, n - 1)
    ELSE splitext(file, n - 1)

te_name_stem(te_name) ==
    splitext(basename(te_name, Len(te_name)), Len(basename(te_name, Len(te_name))))

\* The lines of the require block.
require_lines(g) ==
    LET types == sorted((g.src_types \cup g.tgt_types) \ {"self"})
        classes == sorted({c[1] : c \in g.tgt_classes})
    IN  [n \in 1..Len(types) |-> <<"  type", types[n]>>]
        \o [n \in 1..Len(classes) |->
              <<"  class", classes[n],
                regroup({c[2] : c \in {d \in g.tgt_classes : d[1] = classes[n]}})>>]

\* The allow lines of one source type and one target type.
allow_lines_tgt(g, src_type, tgt_type) ==
    LET tgt_allows == {q \in g.allows : q[1] = src_type /\ q[2] = tgt_type}
        tgt_cs == sorted({r[3] : r \in tgt_allows})
    IN  [j \in 1..Len(tgt_cs) |->
            <<"allow", src_type, tgt_type, tgt_cs[j],
              regroup({r[4] : r \in {q \in tgt_allows : q[3] = tgt_cs[j]}})>>]

\* The allow lines of one source type.
allow_lines(g, src_type) ==
    LET tgts == sorted({r[2] : r \in {q \in g.allows : q[1] = src_type}})
    IN  Concat([i \in 1..Len(tgts) |-> allow_lines_tgt(g, src_type, tgts[i])])

\* te_stream, from the module-level variables g as degroup leaves them.
te_stream(g, te_name, te_version) ==
    << <<"">>, <<"module", te_name_stem(te_name), te_version>>, <<"">>, <<"require {">> >>
    \o require_lines(g)
    \o << <<"}">> >>
    \o LET srcs == sorted({r[1] : r \in g.allows})
       IN  Concat([n \in 1..Len(srcs) |->
              << <<"">>, <<"#=============", srcs[n], "=============">> >>
              \o allow_lines(g, srcs[n])])

\* The calls made.
AllowRules ==
    { [allow |-> TRUE, src |-> <<"a_t">>, tgt |-> <<"b_t">>, cls |-> "file", act |-> <<"read">>],
      [allow |-> TRUE, src |-> <<"a_t">>, tgt |-> <<"self">>, cls |-> "file", act |-> <<"write", "read">>],
      [allow |-> TRUE, src |-> <<"c_t">>, tgt |-> <<"b_t", "a_t">>, cls |-> "dir", act |-> <<"search">>],
      [allow |-> TRUE, src |-> <<"a_t">>, tgt |-> <<"b_t">>, cls |-> "dir", act |-> <<"read">>],
      [allow |-> FALSE, src |-> <<>>, tgt |-> <<>>, cls |-> "", act |-> <<>>] }

MaxRules == 2

Allow2teCalls ==
    [ rules : SeqsUpTo(AllowRules, MaxRules), te_name : {"local.te", "/tmp/m.x.te"}, te_version : {"1.0"} ]

\* A call with a list of rules: degroup brings them into the module-level
\* variables, and the stream is written from these.
Allow2te ==
    /\ pc \in {"idle", "done", "failed"}
    /\ \E call \in Allow2teCalls :
          /\ terms' = call
          /\ \E regular \in {degroup(call.rules)} :
                /\ allows' = regularize_allows(allows, regular)
                /\ src_types' = regularize_src_types(src_types, regular)
                /\ tgt_types' = regularize_tgt_types(tgt_types, regular)
                /\ tgt_classes' = regularize_tgt_classes(tgt_classes, regular)
          /\ result' = te_stream([allows |-> allows', src_types |-> src_types',
                                  tgt_types |-> tgt_types', tgt_classes |-> tgt_classes'],
                                 call.te_name, call.te_version)
    /\ pc' = "done"
    /\ UNCHANGED <<idx, ret, if_state, keys, netspec_state, changes>>

\* A call with rules that are no list.
Allow2teRejects ==
    /\ pc \in {"idle", "done", "failed"}
    /\ \E rules \in {Str("allow a_t b_t:file read;"), Null} :
          terms' = [rules |-> rules, te_name |-> "local.te", te_version |-> "1.0"]
    /\ result' = Err("NotAList")
    /\ pc' = "failed"
    /\ UNCHANGED <<idx, ret, if_state, keys, allow2te_globals, netspec_state, changes>>

NextAllow2te ==
    \/ Allow2te
    \/ Allow2teRejects

SpecAllow2te == Init /\ [][NextAllow2te]_vars

----------------------------------------------------------------------------
(* The polymac filter (plugins/filter/polymac.py).  env, the dict of the   *)
(* keys met so far, is one object handed down and changed in place: the    *)
(* functions that walk the data give back the env they leave together with *)
(* their value.  deepcopy gives the value it is given.                     *)

\* The passes of the `while True` loop of update_data_string and the depth
\* of the exact matches followed; Err("Unbounded") is the outcome beyond.
MaxPasses == 4

\* re.subn(re.escape(pat), repl, data): the new string, and the count.
RECURSIVE replaced(_, _, _)
replaced(pat, repl, data) ==
    IF Len(data) < Len(pat) THEN data
    ELSE IF SubSeq(data, 1, Len(pat)) = pat
    THEN repl \o replaced(pat, repl, SubSeq(data, Len(pat) + 1, Len(data)))
    ELSE SubSeq(data, 1, 1) \o replaced(pat, repl, SubSeq(data, 2, Len(data)))

RECURSIVE occurrences(_, _)
occurrences(pat, data) ==
    IF Len(data) < Len(pat) THEN 0
    ELSE IF SubSeq(data, 1, Len(pat)) = pat
    THEN 1 + occurrences(pat, SubSeq(data, Len(pat) + 1, Len(data)))
    ELSE occurrences(pat, SubSeq(data, 2, Len(data)))

\* `if ret:`
truth(x) ==
    IF x.t = "bool" THEN x.v
    ELSE IF x.t = "num" THEN x.v # 0
    ELSE IF x.t = "null" THEN FALSE
    ELSE Len(x.v) > 0

RECURSIVE update_data(_, _, _)

\* One pass of `for key in env`, at the n-th key, and the passes after it.
RECURSIVE update_data_pass(_, _, _, _, _)
update_data_pass(data, env, n, count, fuel) ==
    IF n > Len(env.v)
    THEN IF count = 0 THEN data
         ELSE IF fuel = 0 THEN Err("Unbounded")
         ELSE update_data_pass(data, env, 1, 0, fuel - 1)
    ELSE IF data.t = "str" /\ data.v = "%" \o env.v[n][1] \o "%"
    THEN IF fuel = 0 THEN Err("Unbounded")
         ELSE Then(update_data(env.v[n][2], env, fuel - 1),
                   LAMBDA d : IF count = 0 THEN d
                              ELSE update_data_pass(d, env, 1, 0, fuel - 1))
    ELSE IF env.v[n][2].t = "str"
    THEN IF data.t # "str" THEN Err("TypeError")
         ELSE update_data_pass(Str(replaced("%" \o env.v[n][1] \o "%", env.v[n][2].v, data.v)),
                               env, n + 1,
                               count + occurrences("%" \o env.v[n][1] \o "%", data.v), fuel)
    ELSE update_data_pass(data, env, n + 1, count, fuel)

\* An env that is no dict cannot be read by key.
update_data_string(data, env, fuel) ==
    IF env.t = "dict" THEN update_data_pass(data, env, 1, 0, fuel)
    ELSE IF env.t \in {"str", "list"} /\ Len(env.v) = 0 THEN data
    ELSE Err("TypeError")

\* update_data of each of the items.
RECURSIVE update_data_items(_, _, _)
update_data_items(items, env, fuel) ==
    IF items = <<>> THEN List(<<>>)
    ELSE Then(update_data(Head(items), env, fuel),
              LAMBDA d : Then(update_data_items(Tail(items), env, fuel),
                              LAMBDA r : List(<<d>> \o r.v)))

update_data_list(data, env, fuel) == update_data_items(data.v, env, fuel)

update_data_dict(data, env, fuel) ==
    Then(update_data_items([n \in 1..Len(data.v) |-> data.v[n][2]], env, fuel),
         LAMBDA r : Dict([n \in 1..Len(data.v) |-> <<data.v[n][1], r.v[n]>>]))

update_data(data, env, fuel) ==
    IF ~truth(data) THEN data
    ELSE IF data.t = "dict" THEN update_data_dict(data, env, fuel)
    ELSE IF data.t = "list" THEN update_data_list(data, env, fuel)
    ELSE IF data.t = "str" THEN update_data_string(data, env, fuel)
    ELSE data

\* macrodata: the substitution sets first, the data after them; without
\* substitution sets env is the one set.
macrodata(metadata, env) ==
    IF Len(flatten(<<metadata>>, 1)) < 2
    THEN <<List(flatten(<<env>>, 1))>> \o flatten(<<metadata>>, 1)
    ELSE flatten(<<metadata>>, 1)

\* for datam in ...: the data of one substitution set.
RECURSIVE macronate_data(_, _, _, _)
macronate_data(envn, datas, env, fuel) ==
    IF datas = <<>> THEN List(<<>>)
    ELSE Then(update_data(Head(datas), envn, fuel),
              LAMBDA datan : Then(update_data(datan, env, fuel),
              LAMBDA datao : Then(macronate_data(envn, Tail(datas), env, fuel),
              LAMBDA r : List(<<datao>> \o r.v))))

\* for envn in ...
RECURSIVE macronate_envs(_, _, _, _)
macronate_envs(envs, datas, env, fuel) ==
    IF envs = <<>> THEN List(<<>>)
    ELSE Then(macronate_data(Head(envs), datas, env, fuel),
              LAMBDA a : Then(macronate_envs(Tail(envs), datas, env, fuel),
              LAMBDA b : List(a.v \o b.v)))

macronate(metadata, env, fuel) ==
    macronate_envs(flatten(<<macrodata(metadata, env)[1]>>, 1),
                   flatten(Tail(macrodata(metadata, env)), 1), env, fuel)

\* A value and the env left.
Walk(val, env) == [t |-> "walk", val |-> val, env |-> env]

\* for key in item: t[key] = item[key]
RECURSIVE overlay(_, _)
overlay(t, pairs) ==
    IF pairs = <<>> THEN t
    ELSE overlay(Put(t, Head(pairs)[1], Head(pairs)[2]), Tail(pairs))

\* A variant of copy_merge in which the keys of the copy are kept where the
\* item has them too.
copy_merge_keeping(res, item) ==
    IF item.t = "dict" THEN Dict(overlay(item.v, res))
    ELSE List(<<Dict(res), item>>)

\* t = deepcopy(res), and the item merged into it.
copy_merge(res, item) ==
    IF item.t = "dict" THEN Dict(overlay(res, item.v))
    ELSE List(<<Dict(res), item>>)

\* A list of one element is taken for its element.
reduced(macronated) ==
    IF macronated.t = "list" /\ Len(macronated.v) = 1 THEN macronated.v[1] ELSE macronated

\* What polymacdict returns of res, its dict of the values walked, and of
\* the expansion of its polymac key.
incorporate(keycount, res, macronated, env) ==
    IF keycount = 1 THEN Walk(macronated, env)
    ELSE IF macronated.t = "list"
    THEN Walk(List([i \in 1..Len(macronated.v) |->
                      copy_merge(Pop(res.v, "polymac"), macronated.v[i])]), env)
    ELSE IF macronated.t = "dict"
    THEN Walk(Dict(overlay(Pop(res.v, "polymac"), macronated.v)), env)
    ELSE Walk(res, env)

RECURSIVE polymacdict(_, _)
RECURSIVE polymaclist(_, _)

polymac_value(value, env) ==
    IF value.t = "list" THEN polymaclist(value, env)
    ELSE IF value.t = "dict" THEN polymacdict(value, env)
    ELSE Walk(value, env)

\* for key in mydict.keys(), from the n-th key on.
RECURSIVE polymacdict_loop(_, _, _, _)
polymacdict_loop(mydict, n, res, env) ==
    IF n > Len(mydict.v) THEN Walk(Dict(res), env)
    ELSE IF mydict.v[n][1] = "polymac"
    THEN Then(polymac_value(mydict.v[n][2], Dict(<<>>)),
              LAMBDA w : polymacdict_loop(mydict, n + 1, Put(res, "polymac", w.val), env))
    ELSE Then(polymac_value(mydict.v[n][2], env),
              LAMBDA w : polymacdict_loop(mydict, n + 1, Put(res, mydict.v[n][1], w.val),
                                          Dict(Put(w.env.v, mydict.v[n][1], mydict.v[n][2]))))

polymacdict(mydict, env) ==
    Then(polymacdict_loop(mydict, 1, <<>>, env),
         LAMBDA w : IF ~HasKey(mydict.v, "polymac") THEN w
                    ELSE Then(macronate(Get(mydict.v, "polymac"), w.env, MaxPasses),
                              LAMBDA m : incorporate(Len(mydict.v), w.val, reduced(m), w.env)))

\* for item in mylist
RECURSIVE polymaclist_loop(_, _, _)
polymaclist_loop(rest, res, env) ==
    IF rest = <<>> THEN Walk(List(res), env)
    ELSE IF Head(rest).t = "list"
    THEN Then(polymaclist(Head(rest), env),
              LAMBDA w : polymaclist_loop(Tail(rest), Append(res, w.val), w.env))
    ELSE IF Head(rest).t = "dict"
    THEN Then(polymacdict(Head(rest), env),
              LAMBDA w : polymaclist_loop(Tail(rest),
                                          IF w.val.t = "list" THEN res \o w.val.v
                                          ELSE Append(res, w.val),
                                          w.env))
    ELSE polymaclist_loop(Tail(rest), Append(res, Head(rest)), env)

polymaclist(mylist, env) == polymaclist_loop(mylist.v, <<>>, env)

polymac(data) ==
    IF data.t = "dict" THEN Then(polymacdict(data, Dict(<<>>)), LAMBDA w : w.val)
    ELSE IF data.t = "list" THEN Then(polymaclist(data, Dict(<<>>)), LAMBDA w : w.val)
    ELSE data

\* The calls made: the substitution sets, the data that follow them, the
\* keys beside the polymac key, and what holds the dict.
MaxData == 2

SubstitutionSets ==
    { D1("n", Str("a")),
      List(<<D1("n", Str("a")), D1("n", Str("b"))>>),
      List(<<D2("n", List(<<Str("%m%")>>), "m", Str("c")), D1("n", Str("b"))>>) }

Templates ==
    { D1("name", Str("%n%")),
      D1("k", Str("x%n%y%s%")),
      D2("name", Str("%n%"), "s", Str("own")),
      Str("%n%"),
      List(<<D1("l", Str("%n%"))>>),
      Num(7) }

PolymacValues ==
    { List(<<sets>> \o q) : sets \in SubstitutionSets, q \in SeqsUpTo(Templates, MaxData) \ {<<>>} }
    \cup { D1("name", Str("%s%")), List(<<D1("name", Str("<%s%>"))>>) }

Siblings ==
    { <<>>,
      << <<"s", Str("v")>> >>,
      << <<"s", Str("v")>>, <<"d", D1("n", Str("w"))>> >> }

PolymacDicts ==
    { Dict(<< <<"polymac", pv>> >> \o sib) : pv \in PolymacValues, sib \in Siblings }
    \cup { Dict(sib \o << <<"polymac", pv>> >>) : pv \in PolymacValues, sib \in Siblings }

PolymacInputs ==
    PolymacDicts
    \cup { List(<<d, Str("z")>>) : d \in PolymacDicts }
    \cup { D1("top", d) : d \in PolymacDicts }
    \cup { Str("%n%"), Null }

\* One call of polymac(terms).
Polymac ==
    /\ pc = "idle"
    /\ \E data \in PolymacInputs :
          /\ terms' = [terms |-> data, debug |-> FALSE]
          /\ \E r \in {polymac(data)} :
                /\ result' = r
                /\ pc' = IF IsErr(r) THEN "failed" ELSE "done"
    /\ UNCHANGED <<idx, ret, if_state, other_plugins>>

NextPolymac == Polymac

SpecPolymac == Init /\ [][NextPolymac]_vars

----------------------------------------------------------------------------
(* update_data() on a string, one pass of the `while True` loop of          *)
(* update_data_string() at a time: result holds data between the passes,   *)
(* changes the count of the replacements of the pass.                      *)

\* `for key in env`, from the n-th key on: data and changes at the end of
\* the loop.  An exact match hands data to update_data() and breaks.
RECURSIVE update_data_keys(_, _, _, _)
update_data_keys(data, env, n, count) ==
    IF n > Len(env.v) THEN [data |-> data, changes |-> count]
    ELSE IF data.t = "str" /\ data.v = "%" \o env.v[n][1] \o "%"
    THEN [data |-> update_data(env.v[n][2], env, MaxPasses), changes |-> count]
    ELSE IF env.v[n][2].t = "str"
    THEN IF data.t # "str" THEN [data |-> Err("TypeError"), changes |-> count]
         ELSE update_data_keys(Str(replaced("%" \o env.v[n][1] \o "%", env.v[n][2].v, data.v)),
                               env, n + 1,
                               count + occurrences("%" \o env.v[n][1] \o "%", data.v))
    ELSE update_data_keys(data, env, n + 1, count)

\* The calls made: bounds and arguments.
MaxKeys == 2

KeyName(n) == SubSeq("abcdefgh", n, n)

\* A plain value, an empty one, and the reference to each of the keys.
SubstitutionValues ==
    { Str("v"), Str(""), Num(5) } \cup { Str("%" \o KeyName(n) \o "%") : n \in 1..MaxKeys }

\* The substitution sets: some of the keys, in any order, each with a value.
SubstitutionEnvs ==
    { Dict([n \in 1..Len(ks) |-> <<KeyName(ks[n]), vs[n]>>]) :
        <<ks, vs>> \in { kv \in SeqsUpTo(1..MaxKeys, MaxKeys) \X SeqsUpTo(SubstitutionValues, MaxKeys) :
                           /\ Len(kv[1]) = Len(kv[2])
                           /\ \A i, j \in 1..Len(kv[1]) : i # j => kv[1][i] # kv[1][j] } }

SubstitutionData ==
    { Str("x%a%"), Str("%a%"), Str("%a%%b%"), Str("v"), Str(""), Num(5), Null }

\* update_data(data, env), up to the loop of update_data_string().
UpdateData ==
    /\ pc = "idle"
    /\ \E data \in SubstitutionData, env \in SubstitutionEnvs :
          /\ terms' = [data |-> data, env |-> env]
          /\ IF truth(data) /\ data.t = "str"
             THEN /\ result' = data
                  /\ pc' = "update_data_string"
             ELSE \E r \in {update_data(data, env, MaxPasses)} :
                     /\ result' = r
                     /\ pc' = IF IsErr(r) THEN "failed" ELSE "done"
    /\ UNCHANGED <<idx, ret, if_state, other_plugins>>

\* One pass of the `while True` loop, down to `if changes == 0`.
Pass ==
    /\ pc = "update_data_string"
    /\ \E nx \in {update_data_keys(result, terms.env, 1, 0)} :
          /\ result' = nx.data
          /\ changes' = nx.changes
          /\ pc' = IF IsErr(nx.data) THEN "failed" ELSE "passed"
    /\ UNCHANGED <<terms, idx, ret, if_state, allow2te_globals, keys, netspec_state>>

\* `if changes == 0: break`: the loop is left when the pass replaced
\* nothing, and begins again with `changes = 0` otherwise.
Again ==
    /\ pc = "passed"
    /\ pc' = IF changes = 0 THEN "done" ELSE "update_data_string"
    /\ changes' = 0
    /\ UNCHANGED <<terms, result, idx, ret, if_state, allow2te_globals, keys, netspec_state>>

NextSubstitution ==
    \/ UpdateData
    \/ Pass
    \/ Again

\* The interpreter goes on with the loop it is in.
SpecSubstitution ==
    Init /\ [][NextSubstitution]_vars /\ WF_vars(Pass) /\ WF_vars(Again)

----------------------------------------------------------------------------
(* The netspec lookup (plugins/lookup/netspec.py).  The calls of _do_term   *)
(* that run() sets off are followed one step at a time: frames is the call  *)
(* stack, its last element the call under way.  A frame named "_do_term"    *)
(* is a call about to run on its term; every other frame is a caller that   *)
(* waits for the value of the call above it, which comes back in newret.    *)
(* The strings are plain, so that templating leaves them as they are.       *)

Frame(fn, term, todo, res) == [fn |-> fn, term |-> term, todo |-> todo, ret |-> res]

Call(term) == Frame("_do_term", term, <<>>, <<>>)

Top == frames[Len(frames)]

Below == SubSeq(frames, 1, Len(frames) - 1)

\* The state a step leads to: the call goes on, or an exception ends it.
Going(fr, nr, rs, sn) ==
    [frames |-> fr, newret |-> nr, resolving_strings |-> rs, seen |-> sn,
     pc |-> "netspec", result |-> result]

Raising(kind) ==
    [frames |-> frames, newret |-> newret, resolving_strings |-> resolving_strings,
     seen |-> seen, pc |-> "failed", result |-> Err(kind)]

\* ipaddr(string): the address when the text is one, False otherwise.
IsAddress(string) ==
    /\ Len(string) > 0
    /\ \A n \in 1..Len(string) :
          SubSeq(string, n, n) \in {"0", "1", "2", "3", "4", "5", "6", "7", "8", "9", "."}

ipaddr(string) == IF IsAddress(string) THEN Str(string) ELSE Bool(FALSE)

\* _do_dict() once the "ip" of the term is resolved: the addresses of the
\* resolved dicts that have any, and the comment of the term.
RECURSIVE resolved_ips(_)
resolved_ips(resolved) ==
    IF resolved = <<>> THEN <<>>
    ELSE Get(Head(resolved).v, "ip").v \o resolved_ips(Tail(resolved))

do_dict_ret(term, resolved) ==
    LET ips == SelectSeq(resolved_ips(resolved), LAMBDA ip : ip.v # "")
    IN  IF HasKey(term.v, "comment")
        THEN D2("ip", List(ips), "comment", Get(term.v, "comment"))
        ELSE D1("ip", List(ips))

\* _do_dict() when the call for the "ip" of the term is back.
do_dict ==
    Going(Below, do_dict_ret(Top.term, flatten(<<newret>>, 999)), resolving_strings, seen)

\* _do_term() on a list or a dict, up to the call it makes; any other term
\* that is no string is refused.
do_term ==
    IF Top.term.t = "list"
    THEN IF flatten(<<Top.term>>, 999) = <<>>
         THEN Going(Below, List(<<>>), resolving_strings, seen)
         ELSE Going(Below \o <<Frame("_do_list", Null, Tail(flatten(<<Top.term>>, 999)), <<>>),
                               Call(Head(flatten(<<Top.term>>, 999)))>>,
                    Null, resolving_strings, seen)
    ELSE IF Top.term.t = "dict"
    THEN IF HasKey(Top.term.v, "ip")
         THEN Going(Below \o <<Frame("_do_dict", Top.term, <<>>, <<>>),
                               Call(List(flatten(<<Get(Top.term.v, "ip")>>, 999)))>>,
                    Null, resolving_strings, seen)
         ELSE Going(Below, do_dict_ret(Top.term, <<>>), resolving_strings, seen)
    ELSE Raising("UnknownType")

\* A variant of do_string that enters a dns entry without looking at
\* _resolving_strings.
do_string_unguarded(string) ==
    IF ipaddr(string).t # "bool"
    THEN Going(Below, D1("ip", List(<<ipaddr(string)>>)), resolving_strings,
               IF \E n \in 1..Len(seen) : seen[n] = ipaddr(string) THEN seen
               ELSE Append(seen, ipaddr(string)))
    ELSE IF HasKey(Get(terms.variables, "groups").v, string)
    THEN Going(Below \o <<Frame("flatten", Str(string), <<>>, <<>>),
                          Call(D2("ip", Get(Get(terms.variables, "groups").v, string),
                                  "comment", Str(string)))>>,
               Null, resolving_strings, seen)
    ELSE IF HasKey(terms.variables, string)
    THEN Going(Below \o <<Frame("flatten", Str(string), <<>>, <<>>),
                          Call(Get(terms.variables, string))>>,
               Null, resolving_strings, seen)
    ELSE IF HasKey(terms.hosts, string)
    THEN Going(Below \o <<Call(D2("ip", Get(terms.hosts, string), "comment", Str(string)))>>,
               Null, resolving_strings, seen)
    ELSE IF HasKey(terms.dns, string)
    THEN Going(Below \o <<Frame("_do_string", Str(string), <<>>, <<>>),
                          Call(D2("ip", Get(terms.dns, string), "comment", Str(string)))>>,
               Null, Append(resolving_strings, string), seen)
    ELSE Raising("Unresolved")

\* _do_string(), up to the call it makes or the value it returns: an
\* address, the name of a host group, the name of a variable, a name that
\* gethostbyname() resolves (terms.hosts), a name of the dns dictionary.
do_string(string) ==
    IF ipaddr(string).t # "bool"
    THEN Going(Below, D1("ip", List(<<ipaddr(string)>>)), resolving_strings,
               IF \E n \in 1..Len(seen) : seen[n] = ipaddr(string) THEN seen
               ELSE Append(seen, ipaddr(string)))
    ELSE IF HasKey(Get(terms.variables, "groups").v, string)
    THEN Going(Below \o <<Frame("flatten", Str(string), <<>>, <<>>),
                          Call(D2("ip", Get(Get(terms.variables, "groups").v, string),
                                  "comment", Str(string)))>>,
               Null, resolving_strings, seen)
    ELSE IF HasKey(terms.variables, string)
    THEN Going(Below \o <<Frame("flatten", Str(string), <<>>, <<>>),
                          Call(Get(terms.variables, string))>>,
               Null, resolving_strings, seen)
    ELSE IF HasKey(terms.hosts, string)
    THEN Going(Below \o <<Call(D2("ip", Get(terms.hosts, string), "comment", Str(string)))>>,
               Null, resolving_strings, seen)
    ELSE IF HasKey(terms.dns, string)
    THEN IF \E n \in 1..Len(resolving_strings) : resolving_strings[n] = string
         THEN Raising("Recursive")
         ELSE Going(Below \o <<Frame("_do_string", Str(string), <<>>, <<>>),
                               Call(D2("ip", Get(terms.dns, string), "comment", Str(string)))>>,
                    Null, Append(resolving_strings, string), seen)
    ELSE Raising("Unresolved")

\* _do_string() when the call for a dns entry is back: the name leaves
\* _resolving_strings.
do_string_ret ==
    Going(Below, newret, SubSeq(resolving_strings, 1, Len(resolving_strings) - 1), seen)

\* _do_string() when the call for a host group or a variable is back.
do_string_flatten == Going(Below, List(flatten(<<newret>>, 999)), resolving_strings, seen)

\* _do_list() when the call for a term is back: on to the next term, or
\* the list is returned.
do_list_ret ==
    IF Top.todo = <<>>
    THEN Going(Below, List(Top.ret \o flatten(<<newret>>, 999)), resolving_strings, seen)
    ELSE Going(Below \o <<Frame("_do_list", Null, Tail(Top.todo),
                                Top.ret \o flatten(<<newret>>, 999)),
                          Call(Head(Top.todo))>>,
               Null, resolving_strings, seen)

\* The value run() returns.
formatted(fmt, rz, sn) ==
    IF fmt = "raw" THEN List(<<List(rz)>>)
    ELSE IF fmt = "ips" THEN List(<<List(sn)>>)
    ELSE Null

\* run() when the call for a term is back: the dicts with addresses join
\* rz, and the next term is taken up or the formatted value returned.
run_ret ==
    IF \E n \in 1..Len(flatten(<<newret>>, 999)) : flatten(<<newret>>, 999)[n].t # "dict"
    THEN Raising("ExpectedDict")
    ELSE IF Top.todo = <<>>
    THEN [frames |-> <<>>, newret |-> newret, resolving_strings |-> resolving_strings,
          seen |-> seen, pc |-> "done",
          result |-> formatted(terms.fmt,
                               Top.ret \o SelectSeq(flatten(<<newret>>, 999),
                                                    LAMBDA r : Len(Get(r.v, "ip").v) > 0),
                               seen)]
    ELSE Going(<<Frame("run", Null, Tail(Top.todo),
                       Top.ret \o SelectSeq(flatten(<<newret>>, 999),
                                            LAMBDA r : Len(Get(r.v, "ip").v) > 0)),
                 Call(Head(Top.todo))>>,
               Null, resolving_strings, seen)

\* The calls made: bounds and arguments.
MaxHosts == 3

HostName(n) == "h" \o SubSeq("123456789", n, n)

DnsValues ==
    { Str("10.0.0.1"), List(<<Str("h1"), Str("10.0.0.2")>>) }
    \cup { Str(HostName(n)) : n \in 1..MaxHosts }

\* The dns dictionaries over the first n host names.
RECURSIVE DnsUpTo(_)
DnsUpTo(n) ==
    IF n = 0 THEN {<<>>}
    ELSE DnsUpTo(n - 1)
         \cup { Append(d, <<HostName(n), v>>) : d \in DnsUpTo(n - 1), v \in DnsValues }

NetspecVariables ==
    << <<"groups", D1("g", List(<<Str("h1"), Str("h3")>>))>>,
       <<"v", D2("ip", Str("h2"), "comment", Str("c"))>> >>

NetspecTerms ==
    { <<>>, <<Str("h1")>>, <<Str("h2"), Str("h1")>>, <<Str("g")>>,
      <<Str("v"), Str("10.0.0.1")>>,
      <<List(<<Str("h3"), List(<<Str("10.0.0.2")>>)>>)>>,
      <<D1("ip", Str("h2")), D1("comment", Str("c"))>>,
      <<List(<<>>), Num(5)>> }

NetspecCalls ==
    [ terms : NetspecTerms,
      variables : {NetspecVariables},
      hosts : { <<>>, << <<"h2", Str("10.0.0.2")>> >> },
      dns : DnsUpTo(MaxHosts),
      fmt : {"ips", "raw"} ]

\* run(), up to the first call of _do_term.
Run ==
    /\ pc = "idle"
    /\ \E call \in NetspecCalls :
          /\ terms' = call
          /\ IF call.terms = <<>>
             THEN /\ pc' = "done"
                  /\ result' = formatted(call.fmt, <<>>, <<>>)
                  /\ frames' = <<>>
             ELSE /\ pc' = "netspec"
                  /\ result' = result
                  /\ frames' = <<Frame("run", Null, Tail(call.terms), <<>>),
                                 Call(Head(call.terms))>>
    /\ resolving_strings' = <<>>
    /\ seen' = <<>>
    /\ newret' = Null
    /\ UNCHANGED <<idx, ret, if_state, allow2te_globals, keys, changes>>

\* _do_term() on a term that is no string.
DoTerm ==
    /\ pc = "netspec"
    /\ Top.fn = "_do_term"
    /\ Top.term.t # "str"
    /\ \E nx \in {do_term} :
          /\ frames' = nx.frames
          /\ newret' = nx.newret
          /\ resolving_strings' = nx.resolving_strings
          /\ seen' = nx.seen
          /\ pc' = nx.pc
          /\ result' = nx.result
    /\ UNCHANGED <<terms, idx, ret, if_state, allow2te_globals, keys, changes>>

\* _do_term() on a string, and _do_string() with it.
DoString ==
    /\ pc = "netspec"
    /\ Top.fn = "_do_term"
    /\ Top.term.t = "str"
    /\ \E nx \in {do_string(Top.term.v)} :
          /\ frames' = nx.frames
          /\ newret' = nx.newret
          /\ resolving_strings' = nx.resolving_strings
          /\ seen' = nx.seen
          /\ pc' = nx.pc
          /\ result' = nx.result
    /\ UNCHANGED <<terms, idx, ret, if_state, allow2te_globals, keys, changes>>

\* The call for a dns entry is back in _do_string().
DoStringReturn ==
    /\ pc = "netspec"
    /\ Top.fn = "_do_string"
    /\ \E nx \in {do_string_ret} :
          /\ frames' = nx.frames
          /\ newret' = nx.newret
          /\ resolving_strings' = nx.resolving_strings
          /\ seen' = nx.seen
          /\ pc' = nx.pc
          /\ result' = nx.result
    /\ UNCHANGED <<terms, idx, ret, if_state, allow2te_globals, keys, changes>>

\* The call for a host group or a variable is back in _do_string().
DoStringFlatten ==
    /\ pc = "netspec"
    /\ Top.fn = "flatten"
    /\ \E nx \in {do_string_flatten} :
          /\ frames' = nx.frames
          /\ newret' = nx.newret
          /\ resolving_strings' = nx.resolving_strings
          /\ seen' = nx.seen
          /\ pc' = nx.pc
          /\ result' = nx.result
    /\ UNCHANGED <<terms, idx, ret, if_state, allow2te_globals, keys, changes>>

\* The call for a term is back in _do_list().
DoListReturn ==
    /\ pc = "netspec"
    /\ Top.fn = "_do_list"
    /\ \E nx \in {do_list_ret} :
          /\ frames' = nx.frames
          /\ newret' = nx.newret
          /\ resolving_strings' = nx.resolving_strings
          /\ seen' = nx.seen
          /\ pc' = nx.pc
          /\ result' = nx.result
    /\ UNCHANGED <<terms, idx, ret, if_state, allow2te_globals, keys, changes>>

\* The call for the "ip" of a dict is back in _do_dict().
DoDictReturn ==
    /\ pc = "netspec"
    /\ Top.fn = "_do_dict"
    /\ \E nx \in {do_dict} :
          /\ frames' = nx.frames
          /\ newret' = nx.newret
          /\ resolving_strings' = nx.resolving_strings
          /\ seen' = nx.seen
          /\ pc' = nx.pc
          /\ result' = nx.result
    /\ UNCHANGED <<terms, idx, ret, if_state, allow2te_globals, keys, changes>>

\* The call for a term is back in run().
RunReturn ==
    /\ pc = "netspec"
    /\ Top.fn = "run"
    /\ \E nx \in {run_ret} :
          /\ frames' = nx.frames
          /\ newret' = nx.newret
          /\ resolving_strings' = nx.resolving_strings
          /\ seen' = nx.seen
          /\ pc' = nx.pc
          /\ result' = nx.result
    /\ UNCHANGED <<terms, idx, ret, if_state, allow2te_globals, keys, changes>>

NextNetspec ==
    \/ Run
    \/ DoTerm
    \/ DoString
    \/ DoStringReturn
    \/ DoStringFlatten
    \/ DoListReturn
    \/ DoDictReturn
    \/ RunReturn

SpecNetspec == Init /\ [][NextNetspec]_vars

----------------------------------------------------------------------------
(* The calls of logical() and of the mergevars lookup, side by side. *)

NextMerging ==
    \/ CallDict
    \/ CallList
    \/ CallScalar
    \/ Item
    \/ Return
    \/ Select
    \/ Merge

SpecMerging == Init /\ [][NextMerging]_vars

----------------------------------------------------------------------------
(* What the claims speak of. *)

Finished == pc \in {"done", "failed"}

\* The evaluated value of a list item {if: x}, {elif: x} or {else: x}.
CondValue(item) == logicif(item.v[1][2])

\* A list of at least two elements that starts with a bool.
CondShape(val) == val.t = "list" /\ Len(val.v) >= 2 /\ val.v[1].t = "bool"

\* A well-formed if or elif, a well-formed else: the value evaluates, and
\* for if and elif it has the shape [bool, body...].
WellFormed(item) ==
    /\ IfKw(item) # ""
    /\ ~IsErr(CondValue(item))
    /\ IfKw(item) \in {"if", "elif"} => CondShape(CondValue(item))

\* One well-formed if, then well-formed elifs, then one else.
IsChain(t) ==
    /\ t.t = "list"
    /\ Len(t.v) >= 2
    /\ IfKw(t.v[1]) = "if"
    /\ IfKw(t.v[Len(t.v)]) = "else"
    /\ \A n \in 2..(Len(t.v) - 1) : IfKw(t.v[n]) = "elif"
    /\ \A n \in 1..Len(t.v) : WellFormed(t.v[n])

\* The if and elif elements of a chain whose condition is true.
TrueBranches(t) == {n \in 1..(Len(t.v) - 1) : CondValue(t.v[n]).v[1].v}

First(S) == CHOOSE n \in S : \A m \in S : n <= m

\* The elements of a value: those of a list, the value itself otherwise.
Elements(val) == IF val.t = "list" THEN val.v ELSE <<val>>

ChainSelection(t) ==
    IF TrueBranches(t) = {}
    THEN Elements(CondValue(t.v[Len(t.v)]))
    ELSE Tail(CondValue(t.v[First(TrueBranches(t))]).v)

\* C1: for a list made of one well-formed if, then well-formed elifs, then
\* one else, logical() returns exactly the body of the first element whose
\* condition is true, condition removed, or the elements of the evaluated
\* else value when no condition is true (an else value that is no list
\* counts as its one element).
C1_ConditionalSelection ==
    (Finished /\ IsChain(terms)) =>
        (pc = "done" /\ result = List(ChainSelection(terms)))

C1_Witness ==
    /\ pc = "done"
    /\ IsChain(terms)
    /\ Len(terms.v) = 4
    /\ First(TrueBranches(terms) \cup {9}) = 3
    /\ Len(result.v) = 2

\* The item the scan is about to process.
AtItem == pc = "logiclist" /\ idx <= Len(terms.v)

\* C2: the chain state is looking when the scan of a list starts, after an
\* else and after an item that is no conditional; and in the state looking a
\* well-formed elif or else ends the evaluation with OrphanConditional, no
\* result being returned.
C2_OrphanDetection ==
    [][ /\ (pc = "idle" /\ pc' = "logiclist") => if_state' = "looking"
        /\ (AtItem /\ pc' = "logiclist" /\ IfKw(terms.v[idx]) \in {"else", ""})
               => if_state' = "looking"
        /\ (AtItem /\ if_state = "looking" /\ IfKw(terms.v[idx]) \in {"elif", "else"}
                /\ WellFormed(terms.v[idx]))
               => (pc' = "failed" /\ result' = Err("OrphanConditional"))
      ]_vars

C2_Witness ==
    /\ pc = "failed"
    /\ result = Err("OrphanConditional")
    /\ if_state = "looking"
    /\ idx = 3
    /\ IfKw(terms.v[2]) = "else"
    /\ IfKw(terms.v[3]) = "elif"
    /\ WellFormed(terms.v[3])

\* C3: in every chain state an if or elif whose evaluated value is not a
\* list of at least two elements starting with a bool ends the evaluation
\* with MalformedConditional; an else is not checked: whatever its evaluated
\* value, it raises no MalformedConditional and, in the states found and
\* clearing, the scan goes on.
C3_MalformedConditional ==
    [][ (AtItem /\ IfKw(terms.v[idx]) # "" /\ ~IsErr(CondValue(terms.v[idx]))) =>
          /\ (IfKw(terms.v[idx]) \in {"if", "elif"} /\ ~CondShape(CondValue(terms.v[idx])))
                 => (pc' = "failed" /\ result' = Err("MalformedConditional"))
          /\ IfKw(terms.v[idx]) = "else"
                 => /\ result' # Err("MalformedConditional")
                    /\ if_state # "looking" => pc' = "logiclist"
      ]_vars

C3_Witness ==
    /\ pc = "failed"
    /\ result = Err("MalformedConditional")
    /\ if_state = "clearing"
    /\ IfKw(terms.v[idx]) = "elif"
    /\ ~IsErr(CondValue(terms.v[idx]))

\* A dict whose only key is k.
IsOperator(t, k) == t.t = "dict" /\ Len(t.v) = 1 /\ t.v[1][1] = k

\* A list of bools.
IsBools(x) == x.t = "list" /\ \A n \in 1..Len(x.v) : x.v[n].t = "bool"

TruthTable(k, bs) ==
    IF k = "and" THEN \A n \in 1..Len(bs) : bs[n].v
    ELSE IF k = "or" THEN \E n \in 1..Len(bs) : bs[n].v
    ELSE Cardinality({n \in 1..Len(bs) : bs[n].v}) = 1

\* C4: for every list bs of bools, the empty list included, {and: bs} is
\* true iff all are true, {or: bs} iff some is true, {xor: bs} iff exactly
\* one is true.
C4_TruthTables ==
    \A k \in {"and", "or", "xor"} :
        (Finished /\ IsOperator(terms, k) /\ IsBools(terms.v[1][2])) =>
            (pc = "done" /\ result = Bool(TruthTable(k, terms.v[1][2].v)))

C4_Witness ==
    /\ pc = "done"
    /\ IsOperator(terms, "xor")
    /\ terms.v[1][2] = List(<<T, T, T>>)
    /\ result = F

\* C5: for every bool b, {not: {not: b}} evaluates to b.
C5_DoubleNegation ==
    \A b \in BOOLEAN :
        (Finished /\ terms = D1("not", D1("not", Bool(b)))) =>
            (pc = "done" /\ result = Bool(b))

IsScalar(x) == x.t \in {"bool", "num", "str", "null"}

\* C6: for every bool b, {not: b} evaluates to the inverse of b; for every
\* scalar s that is no bool (a number, a string, null), {not: s} evaluates
\* to s itself and does not fail.
C6_NotOnScalar ==
    (Finished /\ IsOperator(terms, "not") /\ IsScalar(terms.v[1][2])) =>
        /\ pc = "done"
        /\ result = IF terms.v[1][2].t = "bool"
                    THEN Bool(~terms.v[1][2].v)
                    ELSE terms.v[1][2]

C6_Witness ==
    /\ pc = "done"
    /\ terms = D1("not", Num(0))
    /\ result = Num(0)

\* A tree of lists and scalars.
RECURSIVE NoDicts(_)
NoDicts(x) ==
    IF x.t = "list" THEN \A n \in 1..Len(x.v) : NoDicts(x.v[n])
    ELSE IsScalar(x)

\* The leaves of such a tree, nested lists reduced: one of them is no bool.
RECURSIVE NonBooleanLeaf(_)
NonBooleanLeaf(x) ==
    IF x.t = "list" THEN \E n \in 1..Len(x.v) : NonBooleanLeaf(x.v[n])
    ELSE x.t # "bool"

\* C7: {and: xs}, {or: xs} and {xor: xs} fail with NonBooleanOperand
\* whenever a leaf operand of xs, nested lists reduced, is no bool, wherever
\* it stands and whatever the other operands are: a false before it under
\* `and`, a true before it under `or`, do not end the evaluation early.
C7_NonBooleanOperand ==
    \A k \in {"and", "or", "xor"} :
        (Finished /\ IsOperator(terms, k) /\ NoDicts(terms.v[1][2])
                  /\ NonBooleanLeaf(terms.v[1][2])) =>
            (pc = "failed" /\ result = Err("NonBooleanOperand"))

C7_Witness ==
    /\ pc = "failed"
    /\ result = Err("NonBooleanOperand")
    /\ terms = D1("and", List(<<F, T, List(<<F, Str("x")>>)>>))

\* A dict that holds an operator key together with another key.
Mixed(x) ==
    /\ x.t = "dict"
    /\ Len(x.v) > 1
    /\ \E n \in 1..Len(x.v) : x.v[n][1] \in {"and", "or", "xor", "not", "if", "elif", "else"}

\* Such a dict at some depth of the tree x.
RECURSIVE HasMixed(_)
HasMixed(x) ==
    \/ Mixed(x)
    \/ x.t = "list" /\ \E n \in 1..Len(x.v) : HasMixed(x.v[n])
    \/ x.t = "dict" /\ \E n \in 1..Len(x.v) : HasMixed(x.v[n][2])

\* C8: when a dict at any depth of the input holds one of the keys and, or,
\* xor, not, if, elif, else together with another key, in either order, the
\* evaluation fails with MultipleOperatorKeys and returns no result, be the
\* dict in a branch that is taken or in one that is discarded.
C8_MultipleOperatorKeys ==
    (Finished /\ HasMixed(terms)) =>
        (pc = "failed" /\ result = Err("MultipleOperatorKeys"))

C8_Witness ==
    /\ pc = "failed"
    /\ result = Err("MultipleOperatorKeys")
    /\ terms.t = "list"
    /\ if_state = "clearing"
    /\ IfKw(terms.v[idx]) = "elif"
    /\ HasMixed(terms.v[idx])
    /\ terms.v[idx].v[1][2].v[2].v[2][1] = "else"

\* The three promotion prefixes, and the suffixes used here.
Prefixes == {"<<", "<<|", "<<-"}
Suffixes == {"", "x", "a"}

\* Promoted content that is a single dict: the dict, or a list of it alone.
IsSingleMapping(c) ==
    c.t = "dict" \/ (c.t = "list" /\ Len(c.v) = 1 /\ c.v[1].t = "dict")

SingleMapping(c) == IF c.t = "dict" THEN c ELSE c.v[1]

\* terms holds the ordinary key "a" at position n and the promotion key
\* prefix \o suffix at the other position; both values evaluate, and the
\* promoted content is a single dict that defines "a".
PromotionCase(n, prefix) ==
    /\ terms.t = "dict"
    /\ Len(terms.v) = 2
    /\ terms.v[n][1] = "a"
    /\ \E S \in Suffixes : terms.v[3 - n][1] = prefix \o S
    /\ ~IsErr(logicif(terms.v[n][2]))
    /\ ~IsErr(logicif(terms.v[3 - n][2]))
    /\ IsSingleMapping(logicif(terms.v[3 - n][2]))
    /\ HasKey(SingleMapping(logicif(terms.v[3 - n][2])).v, "a")

\* The evaluated existing value and the evaluated promoted value of "a".
Existing(n) == logicif(terms.v[n][2])
Promoted(n) == Get(SingleMapping(logicif(terms.v[3 - n][2])).v, "a")

\* A sequence with every nested list replaced by its elements.
RECURSIVE Flat(_)
Flat(s) ==
    IF s = <<>> THEN <<>>
    ELSE (IF Head(s).t = "list" THEN Flat(Head(s).v) ELSE <<Head(s)>>) \o Flat(Tail(s))

\* A sequence with no null, "None" or "null" in it, at any depth.
RECURSIVE NullFree(_)
NullFree(s) ==
    \A n \in 1..Len(s) :
        /\ s[n] \notin {Null, Str("None"), Str("null")}
        /\ s[n].t = "list" => NullFree(s[n].v)

\* The first occurrences of the elements of s, in order; two elements are
\* the same when Python's == holds of them.
FirstOccurrences(s) ==
    LET Keep == {n \in 1..Len(s) : \A m \in 1..(n - 1) : ~PyEq(s[m], s[n])}
        RECURSIVE Pick(_)
        Pick(n) == IF n > Len(s) THEN <<>>
                   ELSE (IF n \in Keep THEN <<s[n]>> ELSE <<>>) \o Pick(n + 1)
    IN  Pick(1)

BothLists(n) == Existing(n).t = "list" /\ Promoted(n).t = "list"

\* C9 as first stated: under << the result's "a" is the promoted value
\* alone; under <<| with both values lists it is the existing list followed
\* by the promoted list; under <<- it is that concatenation without its
\* repeated elements.
C9_PlainConcatenation ==
    \A n \in {1, 2} :
        /\ (Finished /\ PromotionCase(n, "<<")) =>
              (pc = "done" /\ Get(result.v, "a") = Promoted(n))
        /\ (Finished /\ PromotionCase(n, "<<|") /\ BothLists(n)) =>
              (pc = "done" /\ Get(result.v, "a") = List(Existing(n).v \o Promoted(n).v))
        /\ (Finished /\ PromotionCase(n, "<<-") /\ BothLists(n)) =>
              (pc = "done" /\ Get(result.v, "a")
                                = List(FirstOccurrences(Existing(n).v \o Promoted(n).v)))

\* C9: for a dict with an ordinary key "a" and one promotion key whose
\* promoted content is a single dict that defines "a": under << the
\* result's "a" is the promoted value alone; under <<| with both values
\* lists that hold no null-like element it is the existing list followed by
\* the promoted list with every nested list replaced by its elements,
\* duplicates kept; under <<- it is that flattened concatenation with every
\* repeated element removed, first occurrences kept in order.
C9_FlattenedConcatenation ==
    \A n \in {1, 2} :
        /\ (Finished /\ PromotionCase(n, "<<")) =>
              (pc = "done" /\ Get(result.v, "a") = Promoted(n))
        /\ (Finished /\ PromotionCase(n, "<<|") /\ BothLists(n)
                     /\ NullFree(Existing(n).v \o Promoted(n).v)) =>
              (pc = "done" /\ Get(result.v, "a")
                                = List(Flat(Existing(n).v \o Promoted(n).v)))
        /\ (Finished /\ PromotionCase(n, "<<-") /\ BothLists(n)
                     /\ NullFree(Existing(n).v \o Promoted(n).v)) =>
              (pc = "done" /\ Get(result.v, "a")
                                = List(FirstOccurrences(Flat(Existing(n).v \o Promoted(n).v))))

C9_Witness ==
    /\ pc = "done"
    /\ terms = D2("a", List(<<List(<<Num(1)>>), Num(2)>>),
                  "<<-", D1("a", List(<<Num(2), List(<<Num(3), List(<<Num(1)>>)>>)>>)))
    /\ result = D1("a", List(<<Num(1), Num(2), Num(3)>>))

\* terms is a dict whose only key is the promotion key prefix \o suffix and
\* whose content is a scalar.
SoleKeyCase(prefix, suffix) ==
    /\ IsOperator(terms, prefix \o suffix)
    /\ IsScalar(terms.v[1][2])

C12_InputNotMutated == result # InputMutated

\* A conditional body was consumed, a promoted dict was emptied and two
\* lists were merged.
C12_Witness ==
    /\ pc = "done"
    /\ terms = D2("a", List(<<Num(1), Num(2)>>),
                  "<<|", D1("a", List(<<D1("if", List(<<T, Num(2)>>))>>)))
    /\ result = D1("a", List(<<Num(1), Num(2), Num(2)>>))


\* terms holds the arguments of a call of the mergevars lookup.
IsMergevarsCall == "variables" \in DOMAIN terms

\* The values the lookup merges, as the variables and the terms hold them.
SelectedValues ==
    [n \in 1..Len(keys) |->
        IF keys[n].t = "str" THEN Get(terms.variables, keys[n].v) ELSE keys[n]]

\* Values that are neither all lists nor all dicts.
Mismatch(vals) ==
    /\ \E n \in 1..Len(vals) : vals[n].t # "list"
    /\ \E n \in 1..Len(vals) : vals[n].t # "dict"

\* An int, a bool or a str taken for the list of it alone.
AsList(val) == IF val.t \in {"num", "bool", "str"} THEN List(<<val>>) ELSE val

\* The merge of a promotion <<| or <<-: the existing and the promoted value
\* of "a", the promoted content being a single dict.
PromotionMerge(n) ==
    /\ ~IsMergevarsCall
    /\ PromotionCase(n, "<<|") \/ PromotionCase(n, "<<-")

\* The merge of a promotion <<|a: the existing value of "a" and the list of
\* the promoted elements, none of them a dict.
RemainderMerge(n) ==
    /\ ~IsMergevarsCall
    /\ terms.t = "dict"
    /\ Len(terms.v) = 2
    /\ terms.v[n][1] = "a"
    /\ terms.v[3 - n][1] = "<<|a"
    /\ ~IsErr(logicif(terms.v[n][2]))
    /\ ~IsErr(logicif(terms.v[3 - n][2]))
    /\ Elements(logicif(terms.v[3 - n][2])) # <<>>
    /\ \A m \in 1..Len(Elements(logicif(terms.v[3 - n][2]))) :
           Elements(logicif(terms.v[3 - n][2]))[m].t # "dict"

MergeFails == pc = "failed" /\ result = Err("MergeTypeMismatch")

\* C11 as first stated: a merge whose values are not all lists or not all
\* dicts, any scalar among them included, fails; in a promotion <<| or <<-
\* and in the mergevars lookup.
C11_AnyScalarFails ==
    /\ \A n \in {1, 2} :
          (Finished /\ PromotionMerge(n) /\ Mismatch(<<Existing(n), Promoted(n)>>))
              => MergeFails
    /\ (Finished /\ IsMergevarsCall /\ Mismatch(SelectedValues)) => MergeFails

\* C11: a merge whose values are not all lists or not all dicts fails with
\* MergeTypeMismatch and returns nothing.  In a promotion <<| or <<- the
\* values are the existing value and the promoted one (or the list of the
\* promoted elements left), and a scalar among them is a mismatch.  In the
\* mergevars lookup an int, a bool or a str is first taken for the list of
\* it alone, and the mismatch is judged after that: a list with a dict, or
\* a null among the values.
C11_TypeMismatch ==
    /\ \A n \in {1, 2} :
          /\ (Finished /\ PromotionMerge(n) /\ Mismatch(<<Existing(n), Promoted(n)>>))
                 => MergeFails
          /\ (Finished /\ RemainderMerge(n) /\ Existing(n).t # "list") => MergeFails
    /\ (Finished /\ IsMergevarsCall
                 /\ Mismatch([n \in 1..Len(keys) |-> AsList(SelectedValues[n])]))
           => MergeFails

C11_Witness ==
    /\ MergeFails
    /\ IsMergevarsCall
    /\ SelectedValues = <<D1("k", Num(2)), List(<<Num(1)>>)>>


\* A tree with no operator key and no promotion key at any depth.
RECURSIVE NoSpecialKeys(_)
NoSpecialKeys(x) ==
    IF x.t = "list" THEN \A n \in 1..Len(x.v) : NoSpecialKeys(x.v[n])
    ELSE IF x.t = "dict"
    THEN \A n \in 1..Len(x.v) :
            /\ x.v[n][1] \notin {"and", "or", "xor", "not", "if", "elif", "else"}
            /\ ~(Len(x.v[n][1]) >= 2 /\ SubSeq(x.v[n][1], 1, 2) = "<<")
            /\ NoSpecialKeys(x.v[n][2])
    ELSE TRUE

\* C13: when the evaluation succeeds and its result holds no operator key
\* and no promotion key at any depth, evaluating the result returns a tree
\* equal to it.
C13_Idempotence ==
    (pc = "done" /\ NoSpecialKeys(result)) => logical(Caller(result)) = result

C13_Witness ==
    /\ pc = "done"
    /\ terms = List(<<D1("if", List(<<F, Str("A")>>)), D1("else", List(<<Str("C")>>)),
                      List(<<Str("N")>>)>>)
    /\ result = List(<<Str("C"), List(<<Str("N")>>)>>)
    /\ NoSpecialKeys(result)


\* C14: allow2te invocations are independent: the stream a call returns is
\* the stream of that call's own rules, as the first call of a process
\* returns it; nothing a previous call brought in appears in it.
IsAllow2teCall == "te_name" \in DOMAIN terms

OwnRules(call) ==
    [allows |-> regularize_allows({}, degroup(call.rules)),
     src_types |-> regularize_src_types({}, degroup(call.rules)),
     tgt_types |-> regularize_tgt_types({}, degroup(call.rules)),
     tgt_classes |-> regularize_tgt_classes({}, degroup(call.rules))]

C14_Independent ==
    (IsAllow2teCall /\ pc = "done")
        => result = te_stream(OwnRules(terms), terms.te_name, terms.te_version)


\* C15: mergevars merges the listed names that are defined first, each once
\* and in the order of its first listing, and then the defined names that
\* match the regex and were not listed, in sorted order; a name both listed
\* and matched is merged once, at its listed place.
Selected == pc \in {"selected", "done", "failed"} /\ IsMergevarsCall

Defined(call) == {call.variables[n][1] : n \in 1..Len(call.variables)}

ListedNames(call) ==
    {call.terms[n].v : n \in {m \in 1..Len(call.terms) : call.terms[m].t = "str"}}
        \cap Defined(call)

MatchedNames(call) ==
    IF call.regex = "" THEN {}
    ELSE {name \in Defined(call) : re_match(call.regex, name)} \ ListedNames(call)

FirstListing(call, name) ==
    CHOOSE n \in 1..Len(call.terms) :
        /\ call.terms[n] = Str(name)
        /\ \A m \in 1..(n - 1) : call.terms[m] # Str(name)

\* The places of keys that hold names, and the names there.
NamePlaces == {n \in 1..Len(keys) : keys[n].t = "str"}

C15_MergeOrder ==
    Selected =>
        /\ {keys[n].v : n \in NamePlaces} = ListedNames(terms) \cup MatchedNames(terms)
        /\ \A i, j \in NamePlaces : i < j =>
              /\ keys[i].v # keys[j].v
              /\ keys[j].v \in ListedNames(terms) =>
                    /\ keys[i].v \in ListedNames(terms)
                    /\ FirstListing(terms, keys[i].v) < FirstListing(terms, keys[j].v)
              /\ keys[i].v \in MatchedNames(terms) =>
                    /\ keys[j].v \in MatchedNames(terms)
                    /\ StrLess(keys[i].v, keys[j].v)
        /\ (pc = "done" /\ ~terms.dedup /\ ~terms.recursive /\ Len(keys) > 0
                /\ SelectedValues[1].t = "list") =>
              /\ Len(result.v[1].v) = Len(keys)
              /\ \A n \in 1..Len(keys) :
                    result.v[1].v[n] =
                        AsList(IF keys[n].t = "str" THEN Get(terms.variables, keys[n].v)
                               ELSE keys[n])

\* A name listed twice that also matches the regex, with other matches.
C15_Witness ==
    /\ Selected
    /\ terms.terms = <<Str("m_b"), Str("m_b")>>
    /\ terms.regex = "^m_"
    /\ keys = <<Str("m_b"), Str("m_a"), Str("m_c")>>


\* C17: once a branch of a chain has been taken (if_state "clearing"), a
\* well-formed elif or else appends nothing; the elif leaves the state
\* "clearing", the else sets it to "looking".  An elif or else that appends
\* anything is met in the state "found" only, and the state it leaves is not
\* "found": from one if to the next at most one body is appended.
C17_SkippingSuppresses ==
    [][ /\ (AtItem /\ if_state = "clearing" /\ IfKw(terms.v[idx]) \in {"elif", "else"}
                /\ WellFormed(terms.v[idx]))
               => /\ pc' = "logiclist"
                  /\ idx' = idx + 1
                  /\ ret' = ret
                  /\ if_state' = IF IfKw(terms.v[idx]) = "elif" THEN "clearing" ELSE "looking"
        /\ (AtItem /\ IfKw(terms.v[idx]) \in {"elif", "else"} /\ ret' # ret)
               => (if_state = "found" /\ if_state' # "found")
      ]_vars

\* An if taken, then an elif whose condition is true and an else, both
\* passed over.
C17_Witness ==
    /\ pc = "logiclist"
    /\ terms = List(<<D1("if", List(<<T, Str("A")>>)), D1("elif", List(<<T, Str("B")>>)),
                      D1("else", List(<<Str("C")>>))>>)
    /\ idx = 4
    /\ ret = <<Str("A")>>
    /\ if_state = "looking"

\* C18: a well-formed if met in the state "found" or "clearing" is handled
\* as the if that opens a chain: a true condition appends the body and sets
\* the state to "clearing", a false one appends nothing and sets the state
\* to "found"; [{if:[true,A]},{if:[false,B]},{else:[C]}] gives [A, C].
C18_FreshIfRestarts ==
    [][ /\ (AtItem /\ if_state \in {"found", "clearing"} /\ IfKw(terms.v[idx]) = "if"
                /\ WellFormed(terms.v[idx]))
               => /\ pc' = "logiclist"
                  /\ idx' = idx + 1
                  /\ IF CondValue(terms.v[idx]).v[1].v
                     THEN /\ ret' = ret \o Tail(CondValue(terms.v[idx]).v)
                          /\ if_state' = "clearing"
                     ELSE /\ ret' = ret
                          /\ if_state' = "found"
        /\ (pc' = "done"
                /\ terms' = List(<<D1("if", List(<<T, Str("A")>>)),
                                   D1("if", List(<<F, Str("B")>>)),
                                   D1("else", List(<<Str("C")>>))>>))
               => result' = List(<<Str("A"), Str("C")>>)
      ]_vars

C18_Witness ==
    /\ pc = "done"
    /\ terms = List(<<D1("if", List(<<T, Str("A")>>)), D1("if", List(<<F, Str("B")>>)),
                      D1("else", List(<<Str("C")>>))>>)
    /\ result = List(<<Str("A"), Str("C")>>)

\* C19: in every chain state an item that is no if, elif or else is
\* evaluated and, unless its evaluation fails, appended as one element, and
\* the state becomes "looking"; a scalar is appended as it is.  A
\* well-formed elif or else that follows ends the evaluation with
\* OrphanConditional.
C19_NonConditionalEndsChain ==
    [][ /\ (AtItem /\ IfKw(terms.v[idx]) = "")
               => IF IsErr(logical(Caller(terms.v[idx])))
                  THEN pc' = "failed" /\ result' = logical(Caller(terms.v[idx]))
                  ELSE /\ pc' = "logiclist"
                       /\ idx' = idx + 1
                       /\ ret' = Append(ret, logical(Caller(terms.v[idx])))
                       /\ Len(ret') = Len(ret) + 1
                       /\ if_state' = "looking"
        /\ (AtItem /\ IsScalar(terms.v[idx]))
               => ret' = Append(ret, terms.v[idx])
        /\ (AtItem /\ idx > 1 /\ IfKw(terms.v[idx - 1]) = ""
                /\ IfKw(terms.v[idx]) \in {"elif", "else"} /\ WellFormed(terms.v[idx]))
               => (pc' = "failed" /\ result' = Err("OrphanConditional"))
      ]_vars

\* An if whose condition is false, a nested list, and an else after it.
C19_Witness ==
    /\ pc = "failed"
    /\ terms = List(<<D1("if", List(<<F, Str("A")>>)), List(<<Str("N")>>),
                      D1("else", List(<<Str("C")>>))>>)
    /\ idx = 3
    /\ ret = <<List(<<Str("N")>>)>>
    /\ result = Err("OrphanConditional")

\* C20: a list nested in a list is evaluated as logical() evaluates it on
\* its own, from the state "looking", whatever the state of the list that
\* holds it, and leaves that list in the state "looking";
\* [{if:[false,A]}, [{else:[B]}]] ends with OrphanConditional.
C20_ChainStatePerList ==
    [][ /\ (AtItem /\ terms.v[idx].t = "list")
               => IF IsErr(logical(Caller(terms.v[idx])))
                  THEN pc' = "failed" /\ result' = logical(Caller(terms.v[idx]))
                  ELSE /\ pc' = "logiclist"
                       /\ ret' = Append(ret, logical(Caller(terms.v[idx])))
                       /\ if_state' = "looking"
        /\ (AtItem /\ terms = List(<<D1("if", List(<<F, Str("A")>>)),
                                     List(<<D1("else", List(<<Str("B")>>))>>)>>)
                /\ idx = 2)
               => (if_state = "found" /\ pc' = "failed" /\ result' = Err("OrphanConditional"))
      ]_vars

C20_Witness ==
    /\ pc = "failed"
    /\ terms = List(<<D1("if", List(<<F, Str("A")>>)),
                      List(<<D1("else", List(<<Str("B")>>))>>)>>)
    /\ idx = 2
    /\ ret = <<>>
    /\ if_state = "found"
    /\ result = Err("OrphanConditional")


\* C16: a dict with a polymac key whose expansion gives N > 1 results, all
\* dicts, and that has other keys, is replaced by N dicts in the order of
\* the expansion, the i-th holding the other keys with their values as
\* polymac leaves them, and the keys of the i-th result, whose values take
\* the place of those of the other keys; a dict whose only key is polymac is
\* replaced by the expansion, by its element when it has one element only.
IsPolymacCall == "debug" \in DOMAIN terms

HasPolymac(d) == d.t = "dict" /\ HasKey(d.v, "polymac")

\* The dict with the polymac key in the data of the call, and what the
\* result holds at its place.
Target ==
    IF HasPolymac(terms.terms) THEN terms.terms
    ELSE IF terms.terms.t = "list" THEN terms.terms.v[1]
    ELSE IF terms.terms.t = "dict" THEN terms.terms.v[1][2]
    ELSE Null

InList == ~HasPolymac(terms.terms) /\ terms.terms.t = "list"

Replacement ==
    IF HasPolymac(terms.terms) THEN result
    ELSE IF InList THEN List(SubSeq(result.v, 1, Len(result.v) - 1))
    ELSE result.v[1][2]

\* In a list the elements of a list take the place of the dict.
InPlace(x) == IF InList /\ x.t # "list" THEN List(<<x>>) ELSE x

\* The values of the dict as the walk over its keys leaves them, with the
\* env it leaves; the expansion of the polymac key.
Walked == polymacdict_loop(Target, 1, <<>>, Dict(<<>>))

Expansion == macronate(Get(Target.v, "polymac"), Walked.env, MaxPasses)

\* x holds the keys of the pairs sib and those of the dict res, each once,
\* with the value of res where res has the key.
IsOverlay(x, sib, res) ==
    /\ x.t = "dict"
    /\ {x.v[n][1] : n \in 1..Len(x.v)}
          = {sib[n][1] : n \in 1..Len(sib)} \cup {res.v[n][1] : n \in 1..Len(res.v)}
    /\ \A m, n \in 1..Len(x.v) : x.v[m][1] = x.v[n][1] => m = n
    /\ \A n \in 1..Len(x.v) :
          x.v[n][2] = IF HasKey(res.v, x.v[n][1]) THEN Get(res.v, x.v[n][1])
                      ELSE Get(sib, x.v[n][1])

C16_SiblingDuplication ==
    (IsPolymacCall /\ Finished /\ HasPolymac(Target) /\ ~IsErr(Walked) /\ ~IsErr(Expansion)) =>
        /\ pc = "done"
        /\ Len(Target.v) = 1 =>
              Replacement = InPlace(IF Len(Expansion.v) = 1 THEN Expansion.v[1] ELSE Expansion)
        /\ (/\ Len(Target.v) > 1
            /\ Len(Expansion.v) > 1
            /\ \A i \in 1..Len(Expansion.v) : Expansion.v[i].t = "dict") =>
              /\ Replacement.t = "list"
              /\ Len(Replacement.v) = Len(Expansion.v)
              /\ \A i \in 1..Len(Expansion.v) :
                    IsOverlay(Replacement.v[i],
                              Pop(Walked.val.v, "polymac"), Expansion.v[i])

\* Two substitution sets, and a result that has a key of the dict.
C16_Witness ==
    /\ IsPolymacCall
    /\ pc = "done"
    /\ terms.terms = Dict(<< <<"s", Str("v")>>,
                             <<"polymac", List(<<List(<<D1("n", Str("a")), D1("n", Str("b"))>>),
                                                 D2("name", Str("%n%"), "s", Str("own"))>>)>> >>)
    /\ result = List(<<D2("s", Str("own"), "name", Str("a")),
                       D2("s", Str("own"), "name", Str("b"))>>)


\* C21: an if or elif whose evaluated value is a list of one bool, the
\* condition with no body, is accepted in every chain state: nothing is
\* appended, and the state becomes "clearing" on true and "found" on false
\* where the table of the chain states lets the element act (an if in every
\* state, an elif in the state "found").
EmptyBody(item) ==
    /\ IfKw(item) \in {"if", "elif"}
    /\ ~IsErr(CondValue(item))
    /\ CondValue(item).t = "list"
    /\ Len(CondValue(item).v) = 1
    /\ CondValue(item).v[1].t = "bool"

C21_EmptyBodyAllowed ==
    [][ (AtItem /\ EmptyBody(terms.v[idx])
            /\ (IfKw(terms.v[idx]) = "if" \/ if_state = "found")) =>
          /\ pc' = "logiclist"
          /\ idx' = idx + 1
          /\ ret' = ret
          /\ if_state' = IF CondValue(terms.v[idx]).v[1].v THEN "clearing" ELSE "found"
      ]_vars


\* C22: for each of and, or, xor, an operand that is no list counts as the
\* list of that one operand: {op: b} for a bool b evaluates to b, and
\* {op: m} for a dict m that evaluates to the bool b, as {not: c} does,
\* evaluates to b.
C22_BareOperandWrapping ==
    \A op \in {"and", "or", "xor"} : \A b \in BOOLEAN :
        /\ (Finished /\ terms = D1(op, Bool(b))) => (pc = "done" /\ result = Bool(b))
        /\ (Finished /\ terms = D1(op, D1("not", Bool(b))))
               => (pc = "done" /\ result = Bool(~b))


\* C23: for each of and, or, xor and every list whose elements are bools or
\* lists of the same kind, {op: xs} is op over xs with every nested list
\* taken for the result of op over it; {xor: [[true, true], true]} is true
\* and {xor: [true, true, true]} is false.
RECURSIVE IsGrouping(_)
IsGrouping(x) ==
    /\ x.t = "list"
    /\ \A n \in 1..Len(x.v) : x.v[n].t = "bool" \/ IsGrouping(x.v[n])

RECURSIVE Grouped(_, _)
Grouped(k, x) ==
    Bool(TruthTable(k, [n \in 1..Len(x.v) |->
                          IF x.v[n].t = "list" THEN Grouped(k, x.v[n]) ELSE x.v[n]]))

C23_NestedGrouping ==
    /\ \A k \in {"and", "or", "xor"} :
          (Finished /\ IsOperator(terms, k) /\ IsGrouping(terms.v[1][2])) =>
              (pc = "done" /\ result = Grouped(k, terms.v[1][2]))
    /\ (Finished /\ terms = D1("xor", List(<<List(<<T, T>>), T>>))) => result = T
    /\ (Finished /\ terms = D1("xor", List(<<T, T, T>>))) => result = F

C23_Witness ==
    /\ pc = "done"
    /\ terms = D1("xor", List(<<List(<<List(<<T, T>>), F>>), T>>))
    /\ result = T


\* C24: the dict elements of a promoted list are promoted from the last to
\* the first.  When two of them define the key a, under "<<" the result's a
\* is the value of the first element; under "<<|", the values being lists
\* that hold no list and no null, the result's a is the existing list, then
\* the list of the last element, then the list of the first.
IsPair(k) ==
    /\ terms.t = "dict"
    /\ HasKey(terms.v, k)
    /\ Get(terms.v, k).t = "list"
    /\ Len(Get(terms.v, k).v) = 2
    /\ \A n \in 1..2 : IsOperator(Get(terms.v, k).v[n], "a")

PairValue(k, n) == Get(terms.v, k).v[n].v[1][2]

IsFlat(x) == x.t = "list" /\ \A n \in 1..Len(x.v) : x.v[n].t \in {"bool", "num"}

PromotionKeysOf(t) == {n \in 1..Len(t.v) : promote_re(t.v[n][1]).matched}

\* terms is a dict with one promotion key, all of whose values evaluate.
OnePromotion ==
    /\ terms.t = "dict"
    /\ Cardinality(PromotionKeysOf(terms)) = 1
    /\ \A n \in 1..Len(terms.v) :
          /\ terms.v[n][1] \notin OperatorKeys
          /\ ~IsErr(logicif(terms.v[n][2]))

PromotionAt == CHOOSE n \in PromotionKeysOf(terms) : TRUE

Content == Elements(logicif(terms.v[PromotionAt][2]))

Remainder == SelectSeq(Content, LAMBDA e : e.t # "dict")

OrdinaryKeys == {terms.v[n][1] : n \in (1..Len(terms.v)) \ {PromotionAt}}

ContentKeys ==
    UNION { {Content[n].v[m][1] : m \in 1..Len(Content[n].v)} :
            n \in {i \in 1..Len(Content) : Content[i].t = "dict"} }

Prefix == promote_re(terms.v[PromotionAt][1]).g1
Suffix == promote_re(terms.v[PromotionAt][1]).g2

C25_Remainder ==
    (Finished /\ OnePromotion) =>
        /\ Prefix = "<<" => pc = "done"
        /\ (pc = "done" /\ Suffix = "") =>
              {result.v[n][1] : n \in 1..Len(result.v)} = OrdinaryKeys \cup ContentKeys
        /\ (pc = "done" /\ Suffix # "" /\ Len(Remainder) > 0
                /\ (Prefix = "<<" \/ Suffix \notin OrdinaryKeys \cup ContentKeys)) =>
              /\ Get(result.v, Suffix) = IF Len(Remainder) = 1 THEN Remainder[1]
                                         ELSE List(Remainder)
              /\ {result.v[n][1] : n \in 1..Len(result.v)}
                    = OrdinaryKeys \cup ContentKeys \cup {Suffix}

\* Three elements left around two dicts; x held 0 before.
C25_Witness ==
    /\ pc = "done"
    /\ terms = D2("x", Num(0), "<<x", RemainderContent)
    /\ Get(result.v, "x") = List(<<Num(8), Num(9), Str("s")>>)
    /\ Get(result.v, "a") = Num(1)
    /\ Len(result.v) = 3


\* terms with its promotion key moved to the place n.
Moved(n) ==
    LET others == SelectSeq(terms.v, LAMBDA kv : kv # terms.v[PromotionAt])
    IN  Dict(SubSeq(others, 1, n - 1) \o <<terms.v[PromotionAt]>>
             \o SubSeq(others, n, Len(others)))

\* C26 as first stated: for a dict with ordinary keys and one promotion
\* key, the outcome is the same wherever the promotion key stands among the
\* keys, and the result never holds the promotion key.
C26_NeverHeld ==
    (Finished /\ OnePromotion) =>
        /\ \A n \in 1..Len(terms.v) : result = logical(Caller(Moved(n)))
        /\ pc = "done" => ~HasKey(result.v, terms.v[PromotionAt][1])

\* C26: for a dict with ordinary keys and one promotion key, the outcome is
\* the same wherever the promotion key stands among the keys, and the
\* result does not hold the promotion key, unless a promoted dict, once
\* evaluated, has a key of that very name.
C26_PlaceIndependent ==
    (Finished /\ OnePromotion) =>
        /\ \A n \in 1..Len(terms.v) : result = logical(Caller(Moved(n)))
        /\ (pc = "done" /\ terms.v[PromotionAt][1] \notin ContentKeys)
               => ~HasKey(result.v, terms.v[PromotionAt][1])

\* The promotion key between two ordinary keys, one of which it collides
\* with.
C26_Witness ==
    /\ pc = "done"
    /\ terms = Dict(<< <<"a", List(<<Num(1)>>)>>,
                       <<"<<", D2("a", List(<<Num(2)>>), "c", Num(4))>>,
                       <<"c", Num(3)>> >>)
    /\ result = D2("a", List(<<Num(2)>>), "c", Num(4))


\* The recursive merge of the dicts x and y as the claim words it: the keys
\* of x, then the new keys of y; on a collision two lists are concatenated,
\* and otherwise the later value stands.
Colliding(x, y, k) ==
    IF Get(x.v, k).t = "list" /\ Get(y.v, k).t = "list"
    THEN List(Get(x.v, k).v \o Get(y.v, k).v)
    ELSE Get(y.v, k)

Recursively(x, y) ==
    LET new == SelectSeq(y.v, LAMBDA kv : ~HasKey(x.v, kv[1]))
    IN  Dict([n \in 1..Len(x.v) |->
                 IF HasKey(y.v, x.v[n][1])
                 THEN <<x.v[n][1], Colliding(x, y, x.v[n][1])>>
                 ELSE x.v[n]] \o new)

\* C27: a dict under the key a and a promoted dict under the same key,
\* promoted by "<<|", are merged recursively: on every colliding inner key
\* two lists are list-merged and otherwise the later value replaces the
\* earlier one, without error, and the other keys of both sides are kept.
C27_RecursiveMerge ==
    \A x \in {D1("x", Num(1)), D1("l", List(<<Num(1)>>))} :
    \A y \in {D1("y", Num(2)), D1("l", List(<<Num(2)>>))} :
        (Finished /\ terms = D2("a", x, "<<|", List(<<D1("a", y)>>))) =>
            /\ pc = "done"
            /\ PyEq(result, D1("a", Recursively(x, y)))


\* The elements of the lists vals, one list after the other.
RECURSIVE Joined(_)
Joined(vals) == IF vals = <<>> THEN <<>> ELSE Head(vals).v \o Joined(Tail(vals))

\* The elements of a sequence with the lists among them opened, at any depth.
RECURSIVE Opened(_)
Opened(s) ==
    IF s = <<>> THEN <<>>
    ELSE IF Head(s).t = "list" THEN Opened(Head(s).v) \o Opened(Tail(s))
    ELSE <<Head(s)>> \o Opened(Tail(s))

\* C28: the mergevars lookup, merging lists with dedup false, returns the
\* single list of their elements in argument order, as long as the sum of
\* their lengths, and not the list of the lists; with recursive true the
\* lists among the elements are opened as well, at any depth.
C28_Concatenates ==
    (pc = "done" /\ IsMergevarsCall /\ ~terms.dedup /\ Len(keys) > 0
         /\ \A n \in 1..Len(keys) : SelectedValues[n].t = "list") =>
        PyEq(result, List(<<List(IF terms.recursive THEN Opened(Joined(SelectedValues))
                                 ELSE Joined(SelectedValues))>>))


\* terms holds the arguments of a call of the netspec lookup.
IsNetspecCall == "dns" \in DOMAIN terms

\* The names of the dns entries whose resolution is under way, outermost
\* first, as the call stack tells them.
Resolving ==
    LET under_way == SelectSeq(frames, LAMBDA f : f.fn = "_do_string")
    IN  [n \in 1..Len(under_way) |-> under_way[n].term.v]

\* C29: while a name is resolved through the dns dictionary it is on
\* _resolving_strings, and only then: the stack holds the names whose
\* resolution is under way, each once, so that a resolution that returns
\* leaves the stack as it found it, empty when the value of a top-level term
\* is back and when run() returns; and a name met while it is on the stack
\* ends the call with "Cannot resolve recursively defined value".
C29_RecursionGuard ==
    /\ [](IsNetspecCall =>
             /\ resolving_strings = Resolving
             /\ \A i, j \in 1..Len(resolving_strings) :
                   i # j => resolving_strings[i] # resolving_strings[j]
             /\ \A n \in 1..Len(resolving_strings) : HasKey(terms.dns, resolving_strings[n])
             /\ (pc = "netspec" /\ Top.fn = "run") => resolving_strings = <<>>
             /\ pc = "done" => resolving_strings = <<>>)
    /\ [][(/\ pc = "netspec"
           /\ Top.fn = "_do_term"
           /\ Top.term.t = "str"
           /\ \E n \in 1..Len(resolving_strings) : resolving_strings[n] = Top.term.v)
              => (pc' = "failed" /\ result' = Err("Recursive"))]_vars

\* The entry of h1 leads to h2, that to h3 and that back to h1: the call
\* fails with all three on the stack.
C29_Witness ==
    /\ IsNetspecCall
    /\ pc = "failed"
    /\ result = Err("Recursive")
    /\ resolving_strings = <<"h1", "h2", "h3">>
    /\ Top = Call(Str("h1"))


\* C30: update_data() on a string returns after finitely many passes of
\* the loop of update_data_string(), whatever the substitution set, also
\* when a value refers to its own key or the values refer to one another
\* in a cycle.
C30_Terminates == (pc = "update_data_string") ~> (pc \in {"done", "failed"})

====
